---- MODULE Spec2Model ----
(***************************************************************************)
(* A model of Servana's core: the OAuth token cache of auth.py, the        *)
(* shelve-backed caches and fetchers of api.py, the threaded realm refresh *)
(* cache_selected_realms_auctions, the query of ui.py, the realm settings  *)
(* of manage_realms_csv.py, format_price of utils.py and the price cache   *)
(* of servana.py.                                                          *)
(***************************************************************************)
EXTENDS Integers, Sequences, FiniteSets, TLC

(***************************************************************************)
(* Bounds of the model.                                                    *)
(***************************************************************************)
MaxTime == 3
NumTokens == 2
MaxBuyout == 2
MaxListing == 2
MaxCopper == 10200
MaxToggles == 3

(***************************************************************************)
(* Program constants.                                                      *)
(***************************************************************************)
\* auth.py:35 and auth.py:61: the margin subtracted from the token lifetime
SafetyMargin == 60
\* auth.py:35: data.get("expires_in", 1800)
BlizzDefaultExpiresIn == 1800
\* auth.py:61: data.get("expires_in", 3600)
TsmDefaultExpiresIn == 3600

\* Python's None: distinct from every token, id, price and time of the model
None == 0 - 1

Tokens == 1..NumTokens
\* The item ids and the connected-realm ids of the model
Items == {1, 2}
Realms == {1, 2}
\* The realm ids of realms.csv, from which load_selected_realms() selects
ListedRealms == {1, 2, 3}
Buyouts == 1..MaxBuyout

\* Token lifetimes the servers announce: one below the margin, and two that
\* put the refresh point T-60 a few seconds after the exchange.
ExpiresInSet == {SafetyMargin - 1, SafetyMargin + 1, SafetyMargin + 2}

\* str(int): the decimal string of an id (keys of the shelve stores)
str(n) ==
  CASE n = 1 -> "1"
    [] n = 2 -> "2"
    [] n = 3 -> "3"
    [] n = 4 -> "4"
    [] OTHER -> "n"

\* Outcomes of an HTTP exchange as the code tells them apart: a 2xx answer,
\* a 404, another non-2xx status (requests' HTTPError from raise_for_status),
\* and no answer at all (requests' ConnectionError, not an HTTPError).
TokenResponses ==
  [status : {"ok"}, access_token : Tokens \cup {None}, expires_in : ExpiresInSet \cup {None}]
    \cup [status : {"http_error", "conn_error"}, access_token : {None}, expires_in : {None}]

\* The token answers offered to the fetchers of api.py: one token, issued with
\* a lifetime below the margin (stale at once) or above it, or a failure
ApiTokenResponses ==
  {r \in TokenResponses :
     r.status = "ok" => /\ r.access_token \in {None, 1}
                        /\ r.expires_in \in {SafetyMargin - 1, SafetyMargin + 1}}

\* Answers of the pricing endpoint region/{id}/item/{item_id}
StatsResponses ==
  [status : {"ok"}, marketValue : Buyouts \cup {None}, saleRate : {None, 1}]
    \cup [status : {"not_found", "http_error", "conn_error"},
          marketValue : {None}, saleRate : {None}]

\* A string field that the JSON answer does not carry
Missing == "<missing>"

\* Answers of the item endpoint data/wow/item/{item_id}
Names == {"Copper Ore", "Linen Cloth"}
NameResponses ==
  [status : {"ok"}, name : Names \cup {Missing}]
    \cup [status : {"not_found", "http_error", "conn_error"}, name : {Missing}]

\* Answers of the media endpoint data/wow/media/item/{item_id}
Urls == {"urlA", "urlB"}
Assets == [key : {"icon", "other"}, value : Urls]
AssetLists == {<<>>} \cup {<<a>> : a \in Assets} \cup {<<a, b>> : a \in {x \in Assets : x.key = "other"}, b \in Assets}
MediaResponses ==
  [status : {"ok"}, assets : AssetLists]
    \cup [status : {"not_found", "http_error", "conn_error"}, assets : {<<>>}]

\* Answers of the listing endpoint connected-realm/{realm_id}/auctions: each
\* entry may lack its item id or its buyout (every well-formed entry, and one
\* of each malformed shape).
ListedEntries ==
  [item : Items, buyout : Buyouts]
    \cup {[item |-> None, buyout |-> 1], [item |-> 1, buyout |-> None],
          [item |-> None, buyout |-> None]}
RECURSIVE SeqsUpTo(_, _)
SeqsUpTo(S, n) ==
  IF n = 0 THEN {<<>>}
  ELSE LET shorter == SeqsUpTo(S, n - 1) IN
       shorter \cup {Append(q, e) : q \in {x \in shorter : Len(x) = n - 1}, e \in S}
ListingResponses(listings) ==
  [status : {"ok"}, auctions : listings]
    \cup [status : {"not_found", "http_error", "conn_error"}, auctions : {<<>>}]

\* The answer slot of a request that is not made
NoResponse == [status |-> "none"]

VARIABLES
  clock,          \* time.time()
  cached_blizz,   \* auth._cached_blizz
  blizz_expiry,   \* auth._blizz_expiry
  cached_tsm,     \* auth._cached_tsm
  tsm_expiry,     \* auth._tsm_expiry
  blizz_T,        \* the real expiry of the token held in cached_blizz (None: none held)
  tsm_T,          \* the real expiry of the token held in cached_tsm
  tsm_db,         \* the shelf TSM_CACHE: str(item_id) -> (marketValue, saleRate)
  name_db,        \* the shelf NAME_CACHE: str(item_id) -> name
  pic_db,         \* the shelf PIC_CACHE: str(item_id) -> icon url
  auction_db,     \* the shelf AUCTION_CACHE: str(realm_id) -> realm_data
  last,           \* the last completed call: operation, argument, outcome, requests made
  backend,        \* the dbm module behind shelve.open in this build
  phase,          \* cache_selected_realms_auctions: "idle", "running" or "returned"
  selected,       \* load_selected_realms(): the realm ids of the running refresh
  pc,             \* the position of each realm's worker thread
  loc,            \* the locals of each realm's worker thread
  results,        \* the dict `results` of the running refresh
  db0,            \* the auction shelf as it was when the refresh started
  exchanges,      \* successful credential exchanges since the refresh started
  qpc,            \* the position of each query thread (ui.py:95, _run_query)
  qloc,           \* the locals of each query thread
  realms_csv,     \* the rows of the realm list REALMS_CSV (manage_realms_csv.py)
  settings_db,    \* the shelf SETTINGS_DB: str(realm_id) -> enabled flag
  manager,        \* the RealmManager windows: whether open, their rows and flags
  query,          \* the realm loop of a running _run_query (ui.py:252-276)
  blizz_db,       \* the shelf BLIZZ_CACHE_DB of servana.py: prices and the last-run stamp
  ah              \* the running cache_all_ah call of servana.py

blizzvars == <<cached_blizz, blizz_expiry, blizz_T>>
tsmvars == <<cached_tsm, tsm_expiry, tsm_T>>
tokvars == <<cached_blizz, blizz_expiry, blizz_T, cached_tsm, tsm_expiry, tsm_T>>
dbvars == <<tsm_db, name_db, pic_db, auction_db>>
queryvars == <<qpc, qloc>>
workervars == <<phase, selected, pc, loc, results, db0, exchanges>>
appvars == <<realms_csv, settings_db, manager, query, blizz_db, ah>>
refreshvars == <<backend, phase, selected, pc, loc, results, db0, exchanges, qpc, qloc,
                 realms_csv, settings_db, manager, query, blizz_db, ah>>
vars == <<clock, cached_blizz, blizz_expiry, blizz_T, cached_tsm, tsm_expiry, tsm_T,
          tsm_db, name_db, pic_db, auction_db, last,
          backend, phase, selected, pc, loc, results, db0, exchanges, qpc, qloc,
          realms_csv, settings_db, manager, query, blizz_db, ah>>

(***************************************************************************)
(* Python dicts and shelves as functions over string keys.                 *)
(***************************************************************************)
EmptyDict == [k \in {} |-> None]
\* A lookup that answers 0 for a missing key
DictGetZero(d, k) == IF k \in DOMAIN d THEN d[k] ELSE 0

\* d.get(k): None when the key is missing
DictGet(d, k) == IF k \in DOMAIN d THEN d[k] ELSE None
\* d[k] = v
DictPut(d, k, v) == [x \in DOMAIN d \cup {k} |-> IF x = k THEN v ELSE d[x]]
\* db.get(k, {})
ShelfGet(db, k) == IF k \in DOMAIN db THEN db[k] ELSE EmptyDict

\* A merge in which the buyout seen last wins
Latest(a, b) == b

\* min(a, b)
Min(a, b) == IF a <= b THEN a ELSE b

\* A truth test that takes every value, None included, for true
TruthyAlways(v) == TRUE

\* Python truthiness of a token value: None (and the empty string) are false
Truthy(v) == v # None

\* A refresh test that is off by one second
TokenValidInclusive(cached, expiry, now) == Truthy(cached) /\ now <= expiry

\* auth.py:25 / auth.py:45: `_cached and now < _expiry`
TokenValid(cached, expiry, now) == Truthy(cached) /\ now < expiry

\* data.get("expires_in", default)
ExpiresIn(resp, default) == IF resp.expires_in = None THEN default ELSE resp.expires_in

\* auth.py:35 / auth.py:61: now + expires_in - 60
NewExpiry(now, resp, default) == now + ExpiresIn(resp, default) - SafetyMargin

\* The dbm modules shelve.open may find: dbm.dumb reads its directory at open
\* and rewrites it from memory at close; a keyed store (dbm.sqlite3, dbm.ndbm)
\* writes each key through; dbm.gnu holds a writer lock from open to close, and
\* a second open fails.
Backends == {"dumb", "keyed", "locking"}

\* The locals of a worker thread before it runs (writeback: the worker runs
\* cache_realm_auctions of cache.py, which opens the shelf with writeback=True)
NoLocals == [now |-> 0, resp |-> [status |-> "none", access_token |-> None, expires_in |-> None],
             token |-> None, remote_ok |-> FALSE,
             auctions |-> <<>>, db |-> EmptyDict, realm_data |-> EmptyDict,
             writeback |-> FALSE]

\* The query threads: each click on the search button starts a thread that
\* runs _run_query (ui.py:95), and nothing keeps a second click from starting
\* another while the first runs
Queries == {1, 2}
\* The locals of a query thread before it runs
NoQuery == [item |-> None, name |-> Missing, db |-> EmptyDict]

\* The RealmManager windows: _open_realm_manager (ui.py:195-196) opens one at
\* each click, and nothing closes the one already open
Windows == {1, 2}

\* A RealmManager window before it is opened (manage_realms_csv.py:41-67)
NoManager == [open |-> FALSE, all_realms |-> <<>>, flags |-> EmptyDict,
              flags0 |-> EmptyDict, toggles |-> EmptyDict, count |-> 0,
              stale |-> FALSE]

\* The realm loop of _run_query before a query runs (ui.py:252-276): the item,
\* the market value of the stat lookup, the selected realms, those still to
\* show and the rows inserted into the tree
NoRunQuery == [pc |-> "idle", item |-> None, mv |-> None, realms |-> <<>>,
               todo |-> <<>>, rows |-> <<>>]

\* The price shelf of servana.py before anything is stored: no price entry,
\* no key "_last_ah_cache_time"
NoBlizzDb == [prices |-> EmptyDict, last_ah_cache_time |-> None]

\* cache_all_ah before it is called (servana.py:299-322): its position, its
\* local `now`, the realms of REALMS still to fetch and, for the claims, the
\* time at which the last completed run ended
NoRun == [pc |-> "idle", now |-> 0, todo |-> <<>>, completed |-> None]

\* The record of a call: its operation and arguments, whether it raised, what
\* it returned (value: a token or a price; stats: a (marketValue, saleRate)
\* pair; text: a name or an icon url; data: a realm's dict), the requests it
\* made and the answers it got (listing: the auctions of a listing answer;
\* parts: the gold, silver and copper of a rendered price; realms: the items
\* of a dict of realms, in order).
\* NoCall is the record with nothing in it.
NoCall == [op |-> "init", arg |-> None, item |-> None, raised |-> FALSE,
           value |-> None, stats |-> <<None, None>>, text |-> Missing, data |-> EmptyDict,
           blizz_posts |-> 0, tsm_posts |-> 0, gets |-> 0,
           tok_status |-> "none", status |-> "none", listing |-> <<>>,
           parts |-> <<None, None, None>>, realms |-> <<>>]

\* A token function that swallows every failure of the exchange
BlizzTokenResultSwallow(cached, expiry, T, now, resp) ==
  IF TokenValid(cached, expiry, now)
  THEN [cached |-> cached, expiry |-> expiry, T |-> T,
        raised |-> FALSE, value |-> cached, posts |-> 0]
  ELSE IF resp.status # "ok" \/ resp.access_token = None
  THEN [cached |-> cached, expiry |-> expiry, T |-> T,
        raised |-> FALSE, value |-> None, posts |-> 1]
  ELSE [cached |-> resp.access_token,
        expiry |-> NewExpiry(now, resp, BlizzDefaultExpiresIn),
        T |-> now + ExpiresIn(resp, BlizzDefaultExpiresIn),
        raised |-> FALSE, value |-> resp.access_token, posts |-> 1]

(***************************************************************************)
(* get_blizzard_token (auth.py:19-36) as a function of the held token, the *)
(* time and the token endpoint's answer: the new held token and expiry,    *)
(* the outcome and the number of POSTs made.                               *)
(***************************************************************************)
BlizzTokenResult(cached, expiry, T, now, resp) ==
  IF TokenValid(cached, expiry, now)
  THEN [cached |-> cached, expiry |-> expiry, T |-> T,
        raised |-> FALSE, value |-> cached, posts |-> 0]
  ELSE IF resp.status # "ok" \/ resp.access_token = None
  THEN \* raise_for_status() raises, or data["access_token"] raises KeyError
       [cached |-> cached, expiry |-> expiry, T |-> T,
        raised |-> TRUE, value |-> None, posts |-> 1]
  ELSE [cached |-> resp.access_token,
        expiry |-> NewExpiry(now, resp, BlizzDefaultExpiresIn),
        T |-> now + ExpiresIn(resp, BlizzDefaultExpiresIn),
        raised |-> FALSE, value |-> resp.access_token, posts |-> 1]

\* A TSM token function that drops the held token when the exchange is refused
TsmTokenResultClearing(cached, expiry, T, now, resp) ==
  IF TokenValid(cached, expiry, now)
  THEN [cached |-> cached, expiry |-> expiry, T |-> T,
        raised |-> FALSE, value |-> cached, posts |-> 0]
  ELSE IF resp.status = "http_error"
  THEN [cached |-> None, expiry |-> 0, T |-> None,
        raised |-> FALSE, value |-> None, posts |-> 1]
  ELSE IF resp.status = "conn_error"
  THEN [cached |-> cached, expiry |-> expiry, T |-> T,
        raised |-> TRUE, value |-> None, posts |-> 1]
  ELSE [cached |-> resp.access_token,
        expiry |-> NewExpiry(now, resp, TsmDefaultExpiresIn),
        T |-> IF resp.access_token = None THEN None
              ELSE now + ExpiresIn(resp, TsmDefaultExpiresIn),
        raised |-> FALSE, value |-> resp.access_token, posts |-> 1]

(***************************************************************************)
(* get_tsm_token (auth.py:38-62): an HTTPError is caught and None is       *)
(* returned; a ConnectionError is not caught; a 2xx answer without         *)
(* access_token stores and returns None.                                   *)
(***************************************************************************)
TsmTokenResult(cached, expiry, T, now, resp) ==
  IF TokenValid(cached, expiry, now)
  THEN [cached |-> cached, expiry |-> expiry, T |-> T,
        raised |-> FALSE, value |-> cached, posts |-> 0]
  ELSE IF resp.status = "http_error"
  THEN [cached |-> cached, expiry |-> expiry, T |-> T,
        raised |-> FALSE, value |-> None, posts |-> 1]
  ELSE IF resp.status = "conn_error"
  THEN [cached |-> cached, expiry |-> expiry, T |-> T,
        raised |-> TRUE, value |-> None, posts |-> 1]
  ELSE [cached |-> resp.access_token,
        expiry |-> NewExpiry(now, resp, TsmDefaultExpiresIn),
        T |-> IF resp.access_token = None THEN None
              ELSE now + ExpiresIn(resp, TsmDefaultExpiresIn),
        raised |-> FALSE, value |-> resp.access_token, posts |-> 1]

\* A hit test that takes a stored (None, None) for a miss
TsmCacheHitTruthy(db, key) == key \in DOMAIN db /\ db[key] # <<None, None>>

\* api.py:26: `key in db`
TsmCacheHit(db, key) == key \in DOMAIN db

\* The token endpoint is asked only when the held token is not valid
BlizzTokenAsked == ~TokenValid(cached_blizz, blizz_expiry, clock)
TsmTokenAsked == ~TokenValid(cached_tsm, tsm_expiry, clock)

(***************************************************************************)
(* api.py:33-45: what get_tsm_region_stats makes of the pricing answer.    *)
(* A 404 and a caught HTTPError both give (None, None); a ConnectionError  *)
(* is not caught.                                                          *)
(***************************************************************************)
StatsOutcome(resp) ==
  IF resp.status = "not_found" THEN [raised |-> FALSE, value |-> <<None, None>>]
  ELSE IF resp.status = "ok" THEN [raised |-> FALSE, value |-> <<resp.marketValue, resp.saleRate>>]
  ELSE IF resp.status = "http_error" THEN [raised |-> FALSE, value |-> <<None, None>>]
  ELSE [raised |-> TRUE, value |-> <<None, None>>]

\* api.py:68: resp.json().get("name", "Unknown Item")
NameOf(resp) == IF resp.name = Missing THEN "Unknown Item" ELSE resp.name

\* api.py:92: next((a["value"] for a in assets if a.get("key") == "icon"), None)
RECURSIVE IconOf(_)
IconOf(assets) ==
  IF assets = <<>> THEN Missing
  ELSE IF Head(assets).key = "icon" THEN Head(assets).value
  ELSE IconOf(Tail(assets))

\* A fold that takes every entry, a missing item id or buyout included
RECURSIVE FoldAuctionsUnchecked(_, _)
FoldAuctionsUnchecked(realm_data, auctions) ==
  IF auctions = <<>> THEN realm_data
  ELSE LET auc == Head(auctions)
           existing == DictGet(realm_data, str(auc.item))
       IN FoldAuctionsUnchecked(
            DictPut(realm_data, str(auc.item),
                    IF existing = None THEN auc.buyout ELSE Min(existing, auc.buyout)),
            Tail(auctions))

(***************************************************************************)
(* api.py:125-130 / cache.py:32-39: fold the listing into realm_data,      *)
(* keeping per item the minimum of the stored price and the buyouts seen.  *)
(***************************************************************************)
RECURSIVE FoldAuctions(_, _)
FoldAuctions(realm_data, auctions) ==
  IF auctions = <<>> THEN realm_data
  ELSE LET auc == Head(auctions)
           existing == DictGet(realm_data, str(auc.item))
           folded ==
             IF auc.item # None /\ auc.buyout # None
             THEN DictPut(realm_data, str(auc.item),
                          IF existing = None THEN auc.buyout ELSE Min(existing, auc.buyout))
             ELSE realm_data
       IN FoldAuctions(folded, Tail(auctions))

\* A refresh that starts from an empty dict: the snapshot is the listing alone
RealmDataReplacing(db, realm_id, auctions, now) ==
  DictPut(FoldAuctions(EmptyDict, auctions), "_ts", now)

\* api.py:124-131: realm_data = db.get(realm_key, {}); fold; realm_data["_ts"] = time.time()
RealmData(db, realm_id, auctions, now) ==
  DictPut(FoldAuctions(ShelfGet(db, str(realm_id)), auctions), "_ts", now)

\* A loop that stops at the first entry lacking an item id or a buyout
RECURSIVE FoldAuctionsBreaking(_, _)
FoldAuctionsBreaking(realm_data, auctions) ==
  IF auctions = <<>> THEN realm_data
  ELSE LET auc == Head(auctions)
           item_key == str(auc.item)
           existing == DictGet(realm_data, item_key)
       IN IF auc.item = None \/ auc.buyout = None
          THEN realm_data
          ELSE FoldAuctionsBreaking(
                 DictPut(realm_data, item_key,
                         IF existing = None THEN auc.buyout ELSE Min(existing, auc.buyout)),
                 Tail(auctions))

\* cache.py:32-39: the loop of cache.py, which skips a malformed entry with
\* `continue`
RECURSIVE FoldAuctionsSkipping(_, _)
FoldAuctionsSkipping(realm_data, auctions) ==
  IF auctions = <<>> THEN realm_data
  ELSE LET auc == Head(auctions)
           item_key == str(auc.item)
           existing == DictGet(realm_data, item_key)
       IN IF auc.item = None \/ auc.buyout = None
          THEN FoldAuctionsSkipping(realm_data, Tail(auctions))
          ELSE FoldAuctionsSkipping(
                 DictPut(realm_data, item_key,
                         IF existing = None THEN auc.buyout ELSE Min(existing, auc.buyout)),
                 Tail(auctions))

InitState ==
  /\ clock = 0
  /\ cached_blizz = None
  /\ blizz_expiry = 0
  /\ cached_tsm = None
  /\ tsm_expiry = 0
  /\ blizz_T = None
  /\ tsm_T = None
  /\ tsm_db = EmptyDict
  /\ name_db = EmptyDict
  /\ pic_db = EmptyDict
  /\ auction_db = EmptyDict
  /\ phase = "idle"
  /\ selected = {}
  /\ pc = [r \in ListedRealms |-> "idle"]
  /\ loc = [r \in ListedRealms |-> NoLocals]
  /\ results = EmptyDict
  /\ db0 = EmptyDict
  /\ exchanges = 0
  /\ qpc = [t \in Queries |-> "idle"]
  /\ qloc = [t \in Queries |-> NoQuery]
  /\ manager = [w \in Windows |-> NoManager]
  /\ query = NoRunQuery
  /\ blizz_db = NoBlizzDb
  /\ ah = NoRun

\* The realm list and the settings shelf of the specifications that do not
\* read them: no row, no stored flag
InitSettings ==
  /\ realms_csv = <<>>
  /\ settings_db = EmptyDict

\* The sequential specifications run on dbm.dumb, the only dbm module of a
\* Windows build; no sequential operation depends on the module.
Init == InitState /\ backend = "dumb" /\ InitSettings /\ last = NoCall

\* Time passes between calls
Tick ==
  /\ clock < MaxTime
  /\ clock' = clock + 1
  /\ UNCHANGED <<tokvars, dbvars, last, refreshvars>>

\* The held Blizzard token after a call of get_blizzard_token with result r
SetBlizz(r) ==
  /\ cached_blizz' = r.cached
  /\ blizz_expiry' = r.expiry
  /\ blizz_T' = r.T

SetTsm(r) ==
  /\ cached_tsm' = r.cached
  /\ tsm_expiry' = r.expiry
  /\ tsm_T' = r.T

\* auth.py:19-36
get_blizzard_token(resp) ==
  LET r == BlizzTokenResult(cached_blizz, blizz_expiry, blizz_T, clock, resp) IN
  /\ SetBlizz(r)
  /\ last' = [NoCall EXCEPT !.op = "get_blizzard_token", !.raised = r.raised,
                            !.value = r.value, !.blizz_posts = r.posts,
                            !.tok_status = resp.status]
  /\ UNCHANGED <<clock, tsmvars, dbvars, refreshvars>>

\* auth.py:38-62
get_tsm_token(resp) ==
  LET r == TsmTokenResult(cached_tsm, tsm_expiry, tsm_T, clock, resp) IN
  /\ SetTsm(r)
  /\ last' = [NoCall EXCEPT !.op = "get_tsm_token", !.raised = r.raised,
                            !.value = r.value, !.tsm_posts = r.posts,
                            !.tok_status = resp.status]
  /\ UNCHANGED <<clock, blizzvars, dbvars, refreshvars>>

\* A stats lookup that obtains the token before it looks in the cache
get_tsm_region_stats_TokenFirst(item_id, tresp, resp) ==
  LET key == str(item_id)
      call == [NoCall EXCEPT !.op = "get_tsm_region_stats", !.arg = item_id]
      tok == TsmTokenResult(cached_tsm, tsm_expiry, tsm_T, clock, tresp)
      out == StatsOutcome(resp)
  IN
  /\ UNCHANGED <<clock, blizzvars, name_db, pic_db, auction_db, refreshvars>>
  /\ SetTsm(tok)
  /\ IF tok.raised
     THEN /\ last' = [call EXCEPT !.raised = TRUE, !.tsm_posts = tok.posts,
                                  !.tok_status = tresp.status]
          /\ UNCHANGED tsm_db
     ELSE IF ~Truthy(tok.value)
     THEN /\ last' = [call EXCEPT !.stats = <<None, None>>, !.tsm_posts = tok.posts,
                                  !.tok_status = tresp.status]
          /\ UNCHANGED tsm_db
     ELSE IF TsmCacheHit(tsm_db, key)
     THEN /\ last' = [call EXCEPT !.stats = tsm_db[key], !.tsm_posts = tok.posts,
                                  !.tok_status = tresp.status]
          /\ UNCHANGED tsm_db
     ELSE IF out.raised
     THEN /\ last' = [call EXCEPT !.raised = TRUE, !.tsm_posts = tok.posts,
                                  !.tok_status = tresp.status,
                                  !.gets = 1, !.status = resp.status]
          /\ UNCHANGED tsm_db
     ELSE /\ tsm_db' = DictPut(tsm_db, key, out.value)
          /\ last' = [call EXCEPT !.stats = out.value, !.tsm_posts = tok.posts,
                                  !.tok_status = tresp.status,
                                  !.gets = 1, !.status = resp.status]

\* api.py:20-49
get_tsm_region_stats(item_id, tresp, resp) ==
  LET key == str(item_id)
      call == [NoCall EXCEPT !.op = "get_tsm_region_stats", !.arg = item_id]
      tok == TsmTokenResult(cached_tsm, tsm_expiry, tsm_T, clock, tresp)
      out == StatsOutcome(resp)
  IN
  /\ UNCHANGED <<clock, blizzvars, name_db, pic_db, auction_db, refreshvars>>
  /\ IF TsmCacheHit(tsm_db, key)
     THEN \* api.py:25-27: a hit returns the entry
          /\ last' = [call EXCEPT !.stats = tsm_db[key]]
          /\ UNCHANGED <<tsmvars, tsm_db>>
     ELSE /\ SetTsm(tok)
          /\ IF tok.raised
             THEN /\ last' = [call EXCEPT !.raised = TRUE, !.tsm_posts = tok.posts,
                                          !.tok_status = tresp.status]
                  /\ UNCHANGED tsm_db
             ELSE IF ~Truthy(tok.value)
             THEN \* api.py:30-31
                  /\ last' = [call EXCEPT !.stats = <<None, None>>, !.tsm_posts = tok.posts,
                                          !.tok_status = tresp.status]
                  /\ UNCHANGED tsm_db
             ELSE IF out.raised
             THEN /\ last' = [call EXCEPT !.raised = TRUE, !.tsm_posts = tok.posts,
                                          !.tok_status = tresp.status,
                                          !.gets = 1, !.status = resp.status]
                  /\ UNCHANGED tsm_db
             ELSE \* api.py:47-49
                  /\ tsm_db' = DictPut(tsm_db, key, out.value)
                  /\ last' = [call EXCEPT !.stats = out.value, !.tsm_posts = tok.posts,
                                          !.tok_status = tresp.status,
                                          !.gets = 1, !.status = resp.status]

\* A name lookup that stores a placeholder when its request fails
get_blizzard_name_NegativeCache(item_id, tresp, resp) ==
  LET key == str(item_id)
      call == [NoCall EXCEPT !.op = "get_blizzard_name", !.arg = item_id]
      tok == BlizzTokenResult(cached_blizz, blizz_expiry, blizz_T, clock, tresp)
      name == IF resp.status = "ok" THEN NameOf(resp) ELSE "Unknown Item"
  IN
  /\ UNCHANGED <<clock, tsmvars, tsm_db, pic_db, auction_db, refreshvars>>
  /\ IF key \in DOMAIN name_db
     THEN /\ last' = [call EXCEPT !.text = name_db[key]]
          /\ UNCHANGED <<blizzvars, name_db>>
     ELSE /\ SetBlizz(tok)
          /\ IF tok.raised
             THEN /\ last' = [call EXCEPT !.raised = TRUE, !.blizz_posts = tok.posts,
                                          !.tok_status = tresp.status]
                  /\ UNCHANGED name_db
             ELSE /\ name_db' = DictPut(name_db, key, name)
                  /\ last' = [call EXCEPT !.text = name, !.blizz_posts = tok.posts,
                                          !.tok_status = tresp.status,
                                          !.gets = 1, !.status = resp.status]

\* A name lookup that forgets what it fetched
get_blizzard_name_NoStore(item_id, tresp, resp) ==
  LET key == str(item_id)
      call == [NoCall EXCEPT !.op = "get_blizzard_name", !.arg = item_id]
      tok == BlizzTokenResult(cached_blizz, blizz_expiry, blizz_T, clock, tresp)
  IN
  /\ UNCHANGED <<clock, tsmvars, tsm_db, pic_db, auction_db, refreshvars, name_db>>
  /\ SetBlizz(tok)
  /\ IF tok.raised
     THEN last' = [call EXCEPT !.raised = TRUE, !.blizz_posts = tok.posts,
                               !.tok_status = tresp.status]
     ELSE IF resp.status # "ok"
     THEN last' = [call EXCEPT !.raised = TRUE, !.blizz_posts = tok.posts,
                               !.tok_status = tresp.status,
                               !.gets = 1, !.status = resp.status]
     ELSE last' = [call EXCEPT !.text = NameOf(resp), !.blizz_posts = tok.posts,
                               !.tok_status = tresp.status,
                               !.gets = 1, !.status = resp.status]

\* api.py:52-72
get_blizzard_name(item_id, tresp, resp) ==
  LET key == str(item_id)
      call == [NoCall EXCEPT !.op = "get_blizzard_name", !.arg = item_id]
      tok == BlizzTokenResult(cached_blizz, blizz_expiry, blizz_T, clock, tresp)
  IN
  /\ UNCHANGED <<clock, tsmvars, tsm_db, pic_db, auction_db, refreshvars>>
  /\ IF key \in DOMAIN name_db
     THEN /\ last' = [call EXCEPT !.text = name_db[key]]
          /\ UNCHANGED <<blizzvars, name_db>>
     ELSE /\ SetBlizz(tok)
          /\ IF tok.raised
             THEN /\ last' = [call EXCEPT !.raised = TRUE, !.blizz_posts = tok.posts,
                                          !.tok_status = tresp.status]
                  /\ UNCHANGED name_db
             ELSE IF resp.status # "ok"
             THEN \* api.py:67: raise_for_status()
                  /\ last' = [call EXCEPT !.raised = TRUE, !.blizz_posts = tok.posts,
                                          !.tok_status = tresp.status,
                                          !.gets = 1, !.status = resp.status]
                  /\ UNCHANGED name_db
             ELSE /\ name_db' = DictPut(name_db, key, NameOf(resp))
                  /\ last' = [call EXCEPT !.text = NameOf(resp), !.blizz_posts = tok.posts,
                                          !.tok_status = tresp.status,
                                          !.gets = 1, !.status = resp.status]

\* An icon lookup that stores the answer even when it carries no icon
get_blizzard_pic_StoreAlways(item_id, tresp, resp) ==
  LET key == str(item_id)
      call == [NoCall EXCEPT !.op = "get_blizzard_pic", !.arg = item_id]
      tok == BlizzTokenResult(cached_blizz, blizz_expiry, blizz_T, clock, tresp)
      icon == IconOf(resp.assets)
  IN
  /\ UNCHANGED <<clock, tsmvars, tsm_db, name_db, auction_db, refreshvars>>
  /\ IF key \in DOMAIN pic_db
     THEN /\ last' = [call EXCEPT !.text = pic_db[key]]
          /\ UNCHANGED <<blizzvars, pic_db>>
     ELSE /\ SetBlizz(tok)
          /\ IF tok.raised
             THEN /\ last' = [call EXCEPT !.raised = TRUE, !.blizz_posts = tok.posts,
                                          !.tok_status = tresp.status]
                  /\ UNCHANGED pic_db
             ELSE IF resp.status # "ok"
             THEN /\ last' = [call EXCEPT !.raised = TRUE, !.blizz_posts = tok.posts,
                                          !.tok_status = tresp.status,
                                          !.gets = 1, !.status = resp.status]
                  /\ UNCHANGED pic_db
             ELSE /\ pic_db' = DictPut(pic_db, key, icon)
                  /\ last' = [call EXCEPT !.text = icon, !.blizz_posts = tok.posts,
                                          !.tok_status = tresp.status,
                                          !.gets = 1, !.status = resp.status]

\* api.py:75-97
get_blizzard_pic(item_id, tresp, resp) ==
  LET key == str(item_id)
      call == [NoCall EXCEPT !.op = "get_blizzard_pic", !.arg = item_id]
      tok == BlizzTokenResult(cached_blizz, blizz_expiry, blizz_T, clock, tresp)
      icon == IconOf(resp.assets)
  IN
  /\ UNCHANGED <<clock, tsmvars, tsm_db, name_db, auction_db, refreshvars>>
  /\ IF key \in DOMAIN pic_db
     THEN /\ last' = [call EXCEPT !.text = pic_db[key]]
          /\ UNCHANGED <<blizzvars, pic_db>>
     ELSE /\ SetBlizz(tok)
          /\ IF tok.raised
             THEN /\ last' = [call EXCEPT !.raised = TRUE, !.blizz_posts = tok.posts,
                                          !.tok_status = tresp.status]
                  /\ UNCHANGED pic_db
             ELSE IF resp.status # "ok"
             THEN /\ last' = [call EXCEPT !.raised = TRUE, !.blizz_posts = tok.posts,
                                          !.tok_status = tresp.status,
                                          !.gets = 1, !.status = resp.status]
                  /\ UNCHANGED pic_db
             ELSE \* api.py:94-97: only a found icon is stored
                  /\ pic_db' = IF icon # Missing THEN DictPut(pic_db, key, icon) ELSE pic_db
                  /\ last' = [call EXCEPT !.text = icon, !.blizz_posts = tok.posts,
                                          !.tok_status = tresp.status,
                                          !.gets = 1, !.status = resp.status]

\* A refresh that stores what it has even when the listing request failed
cache_realm_auctions_StoreOnFailure(realm_id, tresp, resp) ==
  LET call == [NoCall EXCEPT !.op = "cache_realm_auctions", !.arg = realm_id]
      tok == BlizzTokenResult(cached_blizz, blizz_expiry, blizz_T, clock, tresp)
      realm_data == RealmData(auction_db, realm_id, resp.auctions, clock)
  IN
  /\ UNCHANGED <<clock, tsmvars, tsm_db, name_db, pic_db, refreshvars>>
  /\ SetBlizz(tok)
  /\ IF tok.raised
     THEN /\ last' = [call EXCEPT !.raised = TRUE, !.blizz_posts = tok.posts,
                                  !.tok_status = tresp.status]
          /\ UNCHANGED auction_db
     ELSE /\ auction_db' = DictPut(auction_db, str(realm_id), realm_data)
          /\ last' = [call EXCEPT !.raised = (resp.status # "ok"), !.data = realm_data,
                                  !.blizz_posts = tok.posts, !.tok_status = tresp.status,
                                  !.gets = 1, !.status = resp.status,
                                  !.listing = resp.auctions]

\* api.py:100-133: get_realm_auctions, then the fold into the shelf
cache_realm_auctions(realm_id, tresp, resp) ==
  LET call == [NoCall EXCEPT !.op = "cache_realm_auctions", !.arg = realm_id]
      tok == BlizzTokenResult(cached_blizz, blizz_expiry, blizz_T, clock, tresp)
      realm_data == RealmData(auction_db, realm_id, resp.auctions, clock)
  IN
  /\ UNCHANGED <<clock, tsmvars, tsm_db, name_db, pic_db, refreshvars>>
  /\ SetBlizz(tok)
  /\ IF tok.raised
     THEN /\ last' = [call EXCEPT !.raised = TRUE, !.blizz_posts = tok.posts,
                                  !.tok_status = tresp.status]
          /\ UNCHANGED auction_db
     ELSE IF resp.status # "ok"
     THEN \* api.py:112: raise_for_status()
          /\ last' = [call EXCEPT !.raised = TRUE, !.blizz_posts = tok.posts,
                                  !.tok_status = tresp.status,
                                  !.gets = 1, !.status = resp.status]
          /\ UNCHANGED auction_db
     ELSE /\ auction_db' = DictPut(auction_db, str(realm_id), realm_data)
          /\ last' = [call EXCEPT !.data = realm_data, !.blizz_posts = tok.posts,
                                  !.tok_status = tresp.status,
                                  !.gets = 1, !.status = resp.status,
                                  !.listing = resp.auctions]

\* A read that asks the listing endpoint before it answers from the shelf
get_cached_price_Fetching(realm_id, item_id) ==
  /\ last' = [NoCall EXCEPT !.op = "get_cached_price", !.arg = realm_id, !.item = item_id,
                            !.value = DictGet(ShelfGet(auction_db, str(realm_id)), str(item_id)),
                            !.gets = 1, !.status = "ok"]
  /\ UNCHANGED <<clock, tokvars, dbvars, refreshvars>>

\* cache.py:12-19
get_cached_price(realm_id, item_id) ==
  /\ last' = [NoCall EXCEPT !.op = "get_cached_price", !.arg = realm_id, !.item = item_id,
                            !.value = DictGet(ShelfGet(auction_db, str(realm_id)), str(item_id))]
  /\ UNCHANGED <<clock, tokvars, dbvars, refreshvars>>

\* api.py:136-141, cache.py:66-72: return db.get(str(realm_id), {})
get_cached_auctions(realm_id) ==
  /\ last' = [NoCall EXCEPT !.op = "get_cached_auctions", !.arg = realm_id,
                            !.data = ShelfGet(auction_db, str(realm_id))]
  /\ UNCHANGED <<clock, tokvars, dbvars, refreshvars>>

\* The answers to a token request that is made, or the empty slot
BlizzTokenAnswers(S) == IF BlizzTokenAsked THEN S ELSE {NoResponse}
TsmTokenAnswers(S) == IF TsmTokenAsked THEN S ELSE {NoResponse}

(***************************************************************************)
(* SpecAuth: the two token functions, called at any time.                  *)
(***************************************************************************)
NextAuth ==
  \/ Tick
  \/ \E resp \in BlizzTokenAnswers(TokenResponses) : get_blizzard_token(resp)
  \/ \E resp \in TsmTokenAnswers(TokenResponses) : get_tsm_token(resp)

SpecAuth == Init /\ [][NextAuth]_vars

(***************************************************************************)
(* SpecStats: get_tsm_region_stats on any item, any answer.                *)
(***************************************************************************)
NextStats ==
  \E item_id \in Items, tresp \in TsmTokenAnswers(ApiTokenResponses), resp \in StatsResponses :
    get_tsm_region_stats(item_id, tresp, resp)

SpecStats == Init /\ [][NextStats]_vars

(***************************************************************************)
(* SpecAuctions: the sequential refresh of a realm and the cached reads.   *)
(***************************************************************************)
\* The token exchange succeeds here; its failures are exercised in Spec
AuctionTokenResponses ==
  {r \in ApiTokenResponses : r.access_token # None /\ r.expires_in = SafetyMargin + 1}

NextAuctions ==
  \/ \E realm_id \in Realms, tresp \in BlizzTokenAnswers(AuctionTokenResponses),
        resp \in ListingResponses(SeqsUpTo(ListedEntries, MaxListing)) :
       cache_realm_auctions(realm_id, tresp, resp)
  \/ \E realm_id \in Realms, item_id \in Items : get_cached_price(realm_id, item_id)

SpecAuctions == Init /\ [][NextAuctions]_vars

(***************************************************************************)
(* Spec: every sequential operation (both token functions, every fetcher   *)
(* of api.py, the cached read) on one item and one realm, with one answer  *)
(* of each kind from every endpoint, at any time.                          *)
(***************************************************************************)
ApiStatsResponses == {r \in StatsResponses : r.status = "ok" => r.marketValue = 1 /\ r.saleRate = 1}
ApiNameResponses == {r \in NameResponses : r.status = "ok" => r.name = "Copper Ore"}
ApiMediaResponses ==
  {r \in MediaResponses : r.status = "ok" => r.assets = <<[key |-> "icon", value |-> "urlA"]>>}
ApiListingResponses == ListingResponses({<<[item |-> 1, buyout |-> 1]>>})

\* The token answers of Spec: a token that outlives the margin by a second, or
\* a failure
SeqTokenResponses ==
  {r \in ApiTokenResponses :
     r.status = "ok" => r.access_token # None /\ r.expires_in = SafetyMargin + 1}

Next ==
  \/ Tick
  \/ get_cached_price(1, 1)
  \/ \E resp \in BlizzTokenAnswers(SeqTokenResponses) : get_blizzard_token(resp)
  \/ \E resp \in TsmTokenAnswers(SeqTokenResponses) : get_tsm_token(resp)
  \/ \E tresp \in TsmTokenAnswers(SeqTokenResponses), resp \in ApiStatsResponses :
       get_tsm_region_stats(1, tresp, resp)
  \/ \E tresp \in BlizzTokenAnswers(SeqTokenResponses), resp \in ApiNameResponses :
       get_blizzard_name(1, tresp, resp)
  \/ \E tresp \in BlizzTokenAnswers(SeqTokenResponses), resp \in ApiMediaResponses :
       get_blizzard_pic(1, tresp, resp)
  \/ \E tresp \in BlizzTokenAnswers(SeqTokenResponses), resp \in ApiListingResponses :
       cache_realm_auctions(1, tresp, resp)

Spec == Init /\ [][Next]_vars

(***************************************************************************)
(* SpecMarket: the sequential refresh of either realm at any time, with    *)
(* the credential exchange and the listing request succeeding or failing,  *)
(* and the cached read of any item of either realm.                        *)
(***************************************************************************)
NextMarket ==
  \/ Tick
  \/ \E realm_id \in Realms, tresp \in BlizzTokenAnswers(SeqTokenResponses),
        resp \in ApiListingResponses :
       cache_realm_auctions(realm_id, tresp, resp)
  \/ \E realm_id \in Realms, item_id \in Items : get_cached_price(realm_id, item_id)

SpecMarket == Init /\ [][NextMarket]_vars

(***************************************************************************)
(* SpecNames: get_blizzard_name on any item, with any answer, at any time. *)
(***************************************************************************)
NextNames ==
  \/ Tick
  \/ \E item_id \in Items, tresp \in BlizzTokenAnswers(SeqTokenResponses), resp \in NameResponses :
       get_blizzard_name(item_id, tresp, resp)

SpecNames == Init /\ [][NextNames]_vars

(***************************************************************************)
(* SpecPics: get_blizzard_pic on any item, with any answer, at any time.   *)
(***************************************************************************)
NextPics ==
  \/ Tick
  \/ \E item_id \in Items, tresp \in BlizzTokenAnswers(SeqTokenResponses), resp \in MediaResponses :
       get_blizzard_pic(item_id, tresp, resp)

SpecPics == Init /\ [][NextPics]_vars

(***************************************************************************)
(* SpecItems: the name and the icon lookups together, on any item, with    *)
(* one good answer and every failure of each endpoint, at any time.        *)
(***************************************************************************)
NextItems ==
  \/ Tick
  \/ \E item_id \in Items, tresp \in BlizzTokenAnswers(SeqTokenResponses), resp \in ApiNameResponses :
       get_blizzard_name(item_id, tresp, resp)
  \/ \E item_id \in Items, tresp \in BlizzTokenAnswers(SeqTokenResponses), resp \in ApiMediaResponses :
       get_blizzard_pic(item_id, tresp, resp)

SpecItems == Init /\ [][NextItems]_vars

(***************************************************************************)
(* cache_selected_realms_auctions (api.py:144-163, cache.py:45-63): one    *)
(* thread per selected realm runs worker(rid), the caller joins them all.  *)
(* A worker is a sequence of steps, each one statement of the code that    *)
(* reads or writes shared state (the token globals, the shelf, results);   *)
(* the threads interleave between steps.                                   *)
(***************************************************************************)
\* api.py:148-158: load the selection, start a worker per realm
StartRefresh(realms) ==
  /\ phase \in {"idle", "returned"}
  /\ phase' = "running"
  /\ selected' = realms
  /\ pc' = [r \in ListedRealms |-> IF r \in realms THEN "tok_check" ELSE "idle"]
  /\ loc' = [r \in ListedRealms |-> NoLocals]
  /\ results' = EmptyDict
  /\ db0' = auction_db
  /\ exchanges' = 0
  /\ UNCHANGED <<clock, tokvars, dbvars, last, backend, queryvars, appvars>>

\* auth.py:24-26: now = time.time(); return the held token if it is valid
TokCheck(r) ==
  /\ pc[r] = "tok_check"
  /\ IF TokenValid(cached_blizz, blizz_expiry, clock)
     THEN /\ loc' = [loc EXCEPT ![r].now = clock, ![r].token = cached_blizz]
          /\ pc' = [pc EXCEPT ![r] = "fetch"]
     ELSE /\ loc' = [loc EXCEPT ![r].now = clock]
          /\ pc' = [pc EXCEPT ![r] = "tok_post"]
  /\ UNCHANGED <<clock, tokvars, dbvars, last, backend, queryvars, phase, selected, results, db0, exchanges, appvars>>

\* auth.py:27-33: the POST, raise_for_status(), resp.json(); a failure ends the thread
TokPost(r, resp) ==
  /\ pc[r] = "tok_post"
  /\ IF resp.status # "ok" \/ resp.access_token = None
     THEN /\ pc' = [pc EXCEPT ![r] = "failed"]
          /\ UNCHANGED <<loc, exchanges>>
     ELSE /\ pc' = [pc EXCEPT ![r] = "tok_set"]
          /\ loc' = [loc EXCEPT ![r].resp = resp]
          /\ exchanges' = exchanges + 1
  /\ UNCHANGED <<clock, tokvars, dbvars, last, backend, queryvars, phase, selected, results, db0, appvars>>

\* auth.py:34: _cached_blizz = data["access_token"]
TokSet(r) ==
  /\ pc[r] = "tok_set"
  /\ cached_blizz' = loc[r].resp.access_token
  /\ blizz_T' = loc[r].now + ExpiresIn(loc[r].resp, BlizzDefaultExpiresIn)
  /\ pc' = [pc EXCEPT ![r] = "tok_expiry"]
  /\ UNCHANGED <<clock, blizz_expiry, tsmvars, dbvars, last, backend, queryvars, phase, selected,
                 loc, results, db0, exchanges, appvars>>

\* auth.py:35: _blizz_expiry = now + data.get("expires_in", 1800) - 60
TokExpiry(r) ==
  /\ pc[r] = "tok_expiry"
  /\ blizz_expiry' = NewExpiry(loc[r].now, loc[r].resp, BlizzDefaultExpiresIn)
  /\ pc' = [pc EXCEPT ![r] = "tok_return"]
  /\ UNCHANGED <<clock, cached_blizz, blizz_T, tsmvars, dbvars, last, backend, queryvars, phase,
                 selected, loc, results, db0, exchanges, appvars>>

\* auth.py:36: return _cached_blizz (the global as it is now)
TokReturn(r) ==
  /\ pc[r] = "tok_return"
  /\ loc' = [loc EXCEPT ![r].token = cached_blizz]
  /\ pc' = [pc EXCEPT ![r] = "fetch"]
  /\ UNCHANGED <<clock, tokvars, dbvars, last, backend, queryvars, phase, selected, results, db0, exchanges, appvars>>

\* api.py:105-113, 120-122: the listing request; raise_for_status() ends the thread
Fetch(r, resp) ==
  /\ pc[r] = "fetch"
  /\ IF resp.status # "ok"
     THEN /\ pc' = [pc EXCEPT ![r] = "failed"]
          /\ UNCHANGED loc
     ELSE /\ pc' = [pc EXCEPT ![r] = "open"]
          /\ loc' = [loc EXCEPT ![r].auctions = resp.auctions, ![r].remote_ok = TRUE]
  /\ UNCHANGED <<clock, tokvars, dbvars, last, backend, queryvars, phase, selected, results, db0, exchanges, appvars>>

\* The threads that hold the auction shelf open
ShelfOpen == {r \in ListedRealms : pc[r] \in {"read", "write", "close"}}

\* api.py:123: shelve.open(AUCTION_CACHE). dbm.gnu refuses a second writer;
\* the handle of dbm.dumb loads the directory of the file.
Open(r) ==
  /\ pc[r] = "open"
  /\ IF backend = "locking" /\ ShelfOpen # {}
     THEN /\ pc' = [pc EXCEPT ![r] = "failed"]
          /\ UNCHANGED loc
     ELSE /\ pc' = [pc EXCEPT ![r] = "read"]
          /\ loc' = [loc EXCEPT ![r].db = auction_db]
  /\ UNCHANGED <<clock, tokvars, dbvars, last, backend, queryvars, phase, selected, results, db0, exchanges, appvars>>

\* api.py:124: realm_data = db.get(realm_key, {})
Read(r) ==
  /\ pc[r] = "read"
  /\ loc' = [loc EXCEPT ![r].realm_data =
               ShelfGet(IF backend = "dumb" THEN loc[r].db ELSE auction_db, str(r))]
  /\ pc' = [pc EXCEPT ![r] = "write"]
  /\ UNCHANGED <<clock, tokvars, dbvars, last, backend, queryvars, phase, selected, results, db0, exchanges, appvars>>

\* api.py:125-132: the fold, the timestamp, db[realm_key] = realm_data
Write(r) ==
  LET realm_data == DictPut(FoldAuctions(loc[r].realm_data, loc[r].auctions), "_ts", clock) IN
  /\ pc[r] = "write"
  /\ ~loc[r].writeback
  /\ loc' = [loc EXCEPT ![r].realm_data = realm_data,
                        ![r].db = DictPut(loc[r].db, str(r), realm_data)]
  /\ auction_db' = DictPut(auction_db, str(r), realm_data)
  /\ pc' = [pc EXCEPT ![r] = "close"]
  /\ UNCHANGED <<clock, tokvars, tsm_db, name_db, pic_db, last, backend, queryvars, phase, selected,
                 results, db0, exchanges, appvars>>

\* api.py:123 (leaving the with block): db.close(). dbm.dumb commits: it
\* rewrites the directory of the file from the directory of this handle.
Close(r) ==
  /\ pc[r] = "close"
  /\ ~loc[r].writeback
  /\ auction_db' = IF backend = "dumb" THEN loc[r].db ELSE auction_db
  /\ pc' = [pc EXCEPT ![r] = "result"]
  /\ UNCHANGED <<clock, tokvars, tsm_db, name_db, pic_db, last, backend, queryvars, phase, selected,
                 loc, results, db0, exchanges, appvars>>

\* api.py:153: results[rid] = cache_realm_auctions(rid)
Result(r) ==
  /\ pc[r] = "result"
  /\ results' = [x \in DOMAIN results \cup {r} |-> IF x = r THEN loc[r].realm_data ELSE results[x]]
  /\ pc' = [pc EXCEPT ![r] = "done"]
  /\ UNCHANGED <<clock, tokvars, dbvars, last, backend, queryvars, phase, selected, loc, db0, exchanges, appvars>>

\* A join that gives up as soon as one worker has failed
ReturnOnFirstFailure ==
  /\ phase = "running"
  /\ \/ \A r \in selected : pc[r] \in {"done", "failed"}
     \/ \E r \in selected : pc[r] = "failed"
  /\ phase' = "returned"
  /\ UNCHANGED <<clock, tokvars, dbvars, last, backend, queryvars, selected, pc, loc, results, db0, exchanges, appvars>>

\* api.py:160-163: every thread joined, return results
Return ==
  /\ phase = "running"
  /\ \A r \in selected : pc[r] \in {"done", "failed"}
  /\ phase' = "returned"
  /\ UNCHANGED <<clock, tokvars, dbvars, last, backend, queryvars, selected, pc, loc, results, db0, exchanges, appvars>>

\* api.py:163: `return results` is all the caller gets; no collection of the
\* failed realms exists
ReturnedErrors == {}

\* The answers offered to a refresh: one of two tokens that outlive the margin
\* or a refused exchange; a listing of one item or a refused request
RefreshTokenResponses ==
  {r \in TokenResponses :
     /\ r.status = "ok" => r.access_token \in {1, 2} /\ r.expires_in = SafetyMargin + 1
     /\ r.status # "conn_error"}
RefreshListingResponses ==
  {r \in ListingResponses({<<[item |-> 1, buyout |-> 1]>>}) : r.status \in {"ok", "http_error"}}

NextRefresh ==
  \/ \E realms \in SUBSET ListedRealms : StartRefresh(realms)
  \/ \E r \in ListedRealms : TokCheck(r)
  \/ \E r \in ListedRealms, resp \in RefreshTokenResponses : TokPost(r, resp)
  \/ \E r \in ListedRealms : TokSet(r)
  \/ \E r \in ListedRealms : TokExpiry(r)
  \/ \E r \in ListedRealms : TokReturn(r)
  \/ \E r \in ListedRealms, resp \in RefreshListingResponses : Fetch(r, resp)
  \/ \E r \in ListedRealms : Open(r)
  \/ \E r \in ListedRealms : Read(r)
  \/ \E r \in ListedRealms : Write(r)
  \/ \E r \in ListedRealms : Close(r)
  \/ \E r \in ListedRealms : Result(r)
  \/ Return

InitRefresh == InitState /\ backend \in Backends /\ InitSettings /\ last = NoCall

SpecRefresh == InitRefresh /\ [][NextRefresh]_vars

(***************************************************************************)
(* SpecHang: a refresh of the realms of Realms in which the listing        *)
(* endpoint may also never answer. requests.get is called without a        *)
(* timeout (api.py:107-111) and t.join() without one (api.py:160-161), so   *)
(* a worker whose request gets no answer stays in requests.get. Every       *)
(* thread that can run is scheduled (weak fairness of the steps).           *)
(***************************************************************************)
\* api.py:107-111: the listing request is sent and no answer ever comes; the
\* worker blocks in requests.get, and no step of the code takes it out
Hang(r) ==
  /\ pc[r] = "fetch"
  /\ pc' = [pc EXCEPT ![r] = "waiting"]
  /\ UNCHANGED <<clock, tokvars, dbvars, last, backend, queryvars, phase, selected, loc, results,
                 db0, exchanges, appvars>>

NextHang ==
  \/ \E realms \in SUBSET Realms : StartRefresh(realms)
  \/ \E r \in Realms : TokCheck(r)
  \/ \E r \in Realms, resp \in RefreshTokenResponses : TokPost(r, resp)
  \/ \E r \in Realms : TokSet(r)
  \/ \E r \in Realms : TokExpiry(r)
  \/ \E r \in Realms : TokReturn(r)
  \/ \E r \in Realms, resp \in RefreshListingResponses : Fetch(r, resp)
  \/ \E r \in Realms : Hang(r)
  \/ \E r \in Realms : Open(r)
  \/ \E r \in Realms : Read(r)
  \/ \E r \in Realms : Write(r)
  \/ \E r \in Realms : Close(r)
  \/ \E r \in Realms : Result(r)
  \/ Return

SpecHang == Init /\ [][NextHang]_vars /\ WF_vars(NextHang)

(***************************************************************************)
(* SpecQueries: two query threads, each running the name lookup of         *)
(* _run_query (ui.py:230) on an item. A lookup is a sequence of steps, one  *)
(* per access to the name shelf or to the network (api.py:56-72); the       *)
(* threads interleave between steps, and nothing in the code locks the      *)
(* shelf.                                                                   *)
(***************************************************************************)
\* The query threads that hold the name shelf open for writing
NameShelfOpen == {t \in Queries : qpc[t] \in {"write", "close"}}

\* ui.py:95, 222-230: a click starts a thread, which calls get_blizzard_name(item_id)
StartQuery(t, item_id) ==
  /\ qpc[t] \in {"idle", "done", "failed"}
  /\ qpc' = [qpc EXCEPT ![t] = "check"]
  /\ qloc' = [qloc EXCEPT ![t] = [NoQuery EXCEPT !.item = item_id]]
  /\ UNCHANGED <<clock, tokvars, dbvars, last, backend, workervars, appvars>>

\* api.py:57-59: open the shelf, return db[key] on a hit, close. dbm.gnu
\* refuses a reader while a writer holds the file.
NameCheck(t) ==
  LET key == str(qloc[t].item) IN
  /\ qpc[t] = "check"
  /\ IF backend = "locking" /\ NameShelfOpen # {}
     THEN /\ qpc' = [qpc EXCEPT ![t] = "failed"]
          /\ UNCHANGED qloc
     ELSE IF key \in DOMAIN name_db
     THEN /\ qpc' = [qpc EXCEPT ![t] = "done"]
          /\ qloc' = [qloc EXCEPT ![t].name = name_db[key]]
     ELSE /\ qpc' = [qpc EXCEPT ![t] = "fetch"]
          /\ UNCHANGED qloc
  /\ UNCHANGED <<clock, tokvars, dbvars, last, backend, workervars, appvars>>

\* api.py:61-68: the token, the item request, raise_for_status(), the name
NameFetch(t, tresp, resp) ==
  LET tok == BlizzTokenResult(cached_blizz, blizz_expiry, blizz_T, clock, tresp) IN
  /\ qpc[t] = "fetch"
  /\ SetBlizz(tok)
  /\ IF tok.raised \/ resp.status # "ok"
     THEN /\ qpc' = [qpc EXCEPT ![t] = "failed"]
          /\ UNCHANGED qloc
     ELSE /\ qpc' = [qpc EXCEPT ![t] = "open"]
          /\ qloc' = [qloc EXCEPT ![t].name = NameOf(resp)]
  /\ UNCHANGED <<clock, tsmvars, dbvars, last, backend, workervars, appvars>>

\* api.py:70: shelve.open(NAME_CACHE); the handle of dbm.dumb loads the
\* directory of the file, dbm.gnu refuses a second writer
NameOpen(t) ==
  /\ qpc[t] = "open"
  /\ IF backend = "locking" /\ NameShelfOpen # {}
     THEN /\ qpc' = [qpc EXCEPT ![t] = "failed"]
          /\ UNCHANGED qloc
     ELSE /\ qpc' = [qpc EXCEPT ![t] = "write"]
          /\ qloc' = [qloc EXCEPT ![t].db = name_db]
  /\ UNCHANGED <<clock, tokvars, dbvars, last, backend, workervars, appvars>>

\* api.py:71: db[key] = name
NameWrite(t) ==
  LET key == str(qloc[t].item) IN
  /\ qpc[t] = "write"
  /\ name_db' = DictPut(name_db, key, qloc[t].name)
  /\ qloc' = [qloc EXCEPT ![t].db = DictPut(qloc[t].db, key, qloc[t].name)]
  /\ qpc' = [qpc EXCEPT ![t] = "close"]
  /\ UNCHANGED <<clock, tokvars, tsm_db, pic_db, auction_db, last, backend, workervars, appvars>>

\* api.py:70-72 (leaving the with block): db.close(), then return name.
\* dbm.dumb rewrites the directory of the file from the directory of this handle.
NameClose(t) ==
  /\ qpc[t] = "close"
  /\ name_db' = IF backend = "dumb" THEN qloc[t].db ELSE name_db
  /\ qpc' = [qpc EXCEPT ![t] = "done"]
  /\ UNCHANGED <<clock, tokvars, tsm_db, pic_db, auction_db, last, backend, workervars, qloc, appvars>>

NextQueries ==
  \/ \E t \in Queries, item_id \in Items : StartQuery(t, item_id)
  \/ \E t \in Queries : NameCheck(t)
  \/ \E t \in Queries, tresp \in BlizzTokenAnswers(SeqTokenResponses), resp \in NameResponses :
       NameFetch(t, tresp, resp)
  \/ \E t \in Queries : NameOpen(t)
  \/ \E t \in Queries : NameWrite(t)
  \/ \E t \in Queries : NameClose(t)

SpecQueries == InitRefresh /\ [][NextQueries]_vars

(***************************************************************************)
(* SpecTokens: the token function as the workers of a refresh run it, at   *)
(* any time: the test, the exchange and the two assignments of             *)
(* get_blizzard_token (auth.py:24-36) are separate steps of each worker.   *)
(* The listing request that follows is refused, which ends the worker.     *)
(***************************************************************************)
\* api.py:112: raise_for_status() on a refused listing request
RefusedListing == {r \in RefreshListingResponses : r.status = "http_error"}

NextTokens ==
  \/ Tick
  \/ \E realms \in SUBSET Realms : StartRefresh(realms)
  \/ \E r \in Realms : TokCheck(r)
  \/ \E r \in Realms, resp \in RefreshTokenResponses : TokPost(r, resp)
  \/ \E r \in Realms : TokSet(r)
  \/ \E r \in Realms : TokExpiry(r)
  \/ \E r \in Realms : TokReturn(r)
  \/ \E r \in Realms, resp \in RefusedListing : Fetch(r, resp)
  \/ Return

SpecTokens == Init /\ [][NextTokens]_vars

(***************************************************************************)
(* SpecListings: the sequential refresh of one realm on every listing of   *)
(* up to MaxListing entries, well formed or not, with the credential       *)
(* exchange succeeding, and the read of the whole snapshot of the realm.   *)
(* The caller reads the snapshot back between two refreshes; the read      *)
(* changes no store, so every sequence of refreshes is covered.            *)
(***************************************************************************)
ListingTokenResponses == {r \in AuctionTokenResponses : r.access_token = 1}
\* Every answer of the listing endpoint with up to MaxListing entries
AllListings == ListingResponses(SeqsUpTo(ListedEntries, MaxListing))

NextListings ==
  \/ /\ last.op # "cache_realm_auctions"
     /\ \E tresp \in BlizzTokenAnswers(ListingTokenResponses), resp \in AllListings :
          cache_realm_auctions(1, tresp, resp)
  \/ get_cached_auctions(1)

SpecListings == Init /\ [][NextListings]_vars

(***************************************************************************)
(* SpecStatsTimed: get_tsm_region_stats on any item at any time, with one  *)
(* good answer and every failure of the token and the pricing endpoints.   *)
(***************************************************************************)
NextStatsTimed ==
  \/ Tick
  \/ \E item_id \in Items, tresp \in TsmTokenAnswers(SeqTokenResponses), resp \in ApiStatsResponses :
       get_tsm_region_stats(item_id, tresp, resp)

SpecStatsTimed == Init /\ [][NextStatsTimed]_vars

(***************************************************************************)
(* The refresh of cache.py (cache.py:22-63). Its coordinator and the token *)
(* and listing steps of its workers are those of api.py (cache.py imports  *)
(* get_realm_auctions from api); its worker opens the shelf with           *)
(* writeback=True, so the handle keeps the entries read or assigned in a   *)
(* cache of its own and writes them again when it closes.                  *)
(***************************************************************************)
\* cache.py:50-58: load the selection, start a worker per realm
StartCacheRefresh(realms) ==
  /\ phase \in {"idle", "returned"}
  /\ phase' = "running"
  /\ selected' = realms
  /\ pc' = [r \in ListedRealms |-> IF r \in realms THEN "tok_check" ELSE "idle"]
  /\ loc' = [r \in ListedRealms |-> [NoLocals EXCEPT !.writeback = TRUE]]
  /\ results' = EmptyDict
  /\ db0' = auction_db
  /\ exchanges' = 0
  /\ UNCHANGED <<clock, tokvars, dbvars, last, backend, queryvars, appvars>>

\* cache.py:31-41: the loop, the timestamp, db[key] = realm_data (which writes
\* through to the file and keeps the entry in the cache of the handle)
CacheWrite(r) ==
  LET realm_data ==
        DictPut(FoldAuctionsSkipping(loc[r].realm_data, loc[r].auctions), "_ts", clock) IN
  /\ pc[r] = "write"
  /\ loc[r].writeback
  /\ loc' = [loc EXCEPT ![r].realm_data = realm_data,
                        ![r].db = DictPut(loc[r].db, str(r), realm_data)]
  /\ auction_db' = DictPut(auction_db, str(r), realm_data)
  /\ pc' = [pc EXCEPT ![r] = "close"]
  /\ UNCHANGED <<clock, tokvars, tsm_db, name_db, pic_db, last, backend, queryvars, phase, selected,
                 results, db0, exchanges, appvars>>

\* cache.py:42, 30 (return inside the with block, then db.close()): Shelf.sync
\* assigns every cached entry again (here the entry of this realm), then the
\* file is closed as in Close
CacheClose(r) ==
  LET handle == IF backend = "dumb" THEN loc[r].db ELSE auction_db IN
  /\ pc[r] = "close"
  /\ loc[r].writeback
  /\ auction_db' = DictPut(handle, str(r), loc[r].realm_data)
  /\ pc' = [pc EXCEPT ![r] = "result"]
  /\ UNCHANGED <<clock, tokvars, tsm_db, name_db, pic_db, last, backend, queryvars, phase, selected,
                 loc, results, db0, exchanges, appvars>>

\* cache.py:66-72: get_cached_auctions of cache.py
cache_py_get_cached_auctions(realm_id) ==
  /\ last' = [NoCall EXCEPT !.op = "cache.get_cached_auctions", !.arg = realm_id,
                            !.data = ShelfGet(auction_db, str(realm_id))]
  /\ UNCHANGED <<clock, tokvars, dbvars, refreshvars>>

(***************************************************************************)
(* SpecImpls: the refresh of either module on the realms of Realms (a      *)
(* refresh of one realm is the function cache_realm_auctions run alone),   *)
(* on any backend, and the read of a snapshot by either module once the    *)
(* refresh has returned.                                                   *)
(***************************************************************************)
\* The listings offered: a malformed entry before a usable one, a cheaper
\* offer of the same item, or a refused request
ImplListings ==
  {<< [item |-> None, buyout |-> 1], [item |-> 1, buyout |-> 2] >>,
   << [item |-> 1, buyout |-> 1] >>}
ImplListingResponses ==
  {r \in ListingResponses(ImplListings) : r.status \in {"ok", "http_error"}}
ImplTokenResponses == {r \in RefreshTokenResponses : r.status = "ok" => r.access_token = 1}

NextImpls ==
  \/ \E realms \in SUBSET Realms : StartRefresh(realms)
  \/ \E realms \in SUBSET Realms : StartCacheRefresh(realms)
  \/ \E r \in Realms : TokCheck(r)
  \/ \E r \in Realms, resp \in ImplTokenResponses : TokPost(r, resp)
  \/ \E r \in Realms : TokSet(r)
  \/ \E r \in Realms : TokExpiry(r)
  \/ \E r \in Realms : TokReturn(r)
  \/ \E r \in Realms, resp \in ImplListingResponses : Fetch(r, resp)
  \/ \E r \in Realms : Open(r)
  \/ \E r \in Realms : Read(r)
  \/ \E r \in Realms : Write(r)
  \/ \E r \in Realms : CacheWrite(r)
  \/ \E r \in Realms : Close(r)
  \/ \E r \in Realms : CacheClose(r)
  \/ \E r \in Realms : Result(r)
  \/ Return
  \/ phase = "returned" /\ \E realm_id \in Realms : get_cached_auctions(realm_id)
  \/ phase = "returned" /\ \E realm_id \in Realms : cache_py_get_cached_auctions(realm_id)

SpecImpls == InitRefresh /\ [][NextImpls]_vars

(***************************************************************************)
(* Claims about the token functions.                                       *)
(***************************************************************************)
BlizzTokenCall == \E resp \in BlizzTokenAnswers(TokenResponses) : get_blizzard_token(resp)
TsmTokenCall == \E resp \in TsmTokenAnswers(TokenResponses) : get_tsm_token(resp)

\* C1: a getToken call made while a token is held and the time is strictly
\* before its real expiry T minus 60 s returns the held token, makes no
\* credential exchange and leaves the held token alone; a call with no held
\* token, or at or after T - 60 s, makes exactly one exchange, and a successful
\* exchange replaces the held token (value and expiry) by the issued one.
C1_TokenFreshness ==
  [][ /\ BlizzTokenCall =>
           IF Truthy(cached_blizz) /\ clock < blizz_T - SafetyMargin
           THEN /\ last'.blizz_posts = 0
                /\ ~last'.raised /\ last'.value = cached_blizz
                /\ UNCHANGED blizzvars
           ELSE /\ last'.blizz_posts = 1
                /\ (last'.tok_status = "ok" /\ ~last'.raised) =>
                     /\ Truthy(last'.value)
                     /\ cached_blizz' = last'.value
                     /\ blizz_expiry' = blizz_T' - SafetyMargin
      /\ TsmTokenCall =>
           IF Truthy(cached_tsm) /\ clock < tsm_T - SafetyMargin
           THEN /\ last'.tsm_posts = 0
                /\ ~last'.raised /\ last'.value = cached_tsm
                /\ UNCHANGED tsmvars
           ELSE /\ last'.tsm_posts = 1
                /\ (last'.tok_status = "ok" /\ ~last'.raised) =>
                     /\ cached_tsm' = last'.value
                     /\ Truthy(cached_tsm') => tsm_expiry' = tsm_T' - SafetyMargin
    ]_vars

\* C1 witness: a call one second before the refresh point (T - 61 s) that
\* returned the held token without an exchange
C1_Witness ==
  /\ last.op = "get_blizzard_token"
  /\ last.blizz_posts = 0
  /\ last.value = cached_blizz
  /\ Truthy(cached_blizz)
  /\ clock = blizz_T - SafetyMargin - 1

(***************************************************************************)
(* Claims about the realm refresh (SpecAuctions).                          *)
(***************************************************************************)
\* The entries of a listing that carry both an item id and a buyout
Usable(auctions) ==
  {auctions[n] : n \in {m \in DOMAIN auctions : auctions[m].item # None /\ auctions[m].buyout # None}}
\* The keys of a snapshot that are not its timestamp
PriceKeys(realm_data) == DOMAIN realm_data \ {"_ts"}
\* A successful refresh of realm_id on the listing of resp
Refreshed(realm_id, resp) ==
  /\ \E tresp \in BlizzTokenAnswers(AuctionTokenResponses) : cache_realm_auctions(realm_id, tresp, resp)
  /\ ~last'.raised

\* C2 (as claimed): after a successful refresh of a realm the stored price map
\* holds exactly the items of the fetched listing that carry an id and a buyout.
C2_SnapshotReplaced ==
  [][ \A realm_id \in Realms, resp \in ListingResponses(SeqsUpTo(ListedEntries, MaxListing)) :
        Refreshed(realm_id, resp) =>
          PriceKeys(auction_db'[str(realm_id)]) = {str(e.item) : e \in Usable(resp.auctions)}
    ]_vars

\* C3 (as claimed): after a successful refresh the price of every listed item,
\* stored and returned, is the minimum buyout among its entries in that listing.
C3_MinimumOfListing ==
  [][ \A realm_id \in Realms, resp \in ListingResponses(SeqsUpTo(ListedEntries, MaxListing)) :
        Refreshed(realm_id, resp) =>
          \A e \in Usable(resp.auctions) :
            /\ \A o \in Usable(resp.auctions) :
                 o.item = e.item => auction_db'[str(realm_id)][str(e.item)] <= o.buyout
            /\ \E o \in Usable(resp.auctions) :
                 o.item = e.item /\ auction_db'[str(realm_id)][str(e.item)] = o.buyout
            /\ last'.data[str(e.item)] = auction_db'[str(realm_id)][str(e.item)]
    ]_vars

(***************************************************************************)
(* Claims about get_tsm_region_stats (SpecStats).                          *)
(***************************************************************************)
NoStats == <<None, None>>
\* The store db holds value v under key
Holds(db, key, v) == key \in DOMAIN db /\ db[key] = v

\* C4 (as claimed): when the pricing endpoint answers with a non-2xx status
\* other than 404, the call fails and no entry for the item is written.
C4_ErrorNotCached ==
  (last.op = "get_tsm_region_stats" /\ last.status = "http_error")
    => (last.raised /\ str(last.arg) \notin DOMAIN tsm_db)

\* C5: a call that gets a 404 returns (None, None) after exactly one pricing
\* request and stores (None, None); an entry of the stat cache is never changed
\* or removed; and a call for an item whose entry is (None, None) returns
\* (None, None) with no token exchange and no pricing request.
C5_NotFoundCached ==
  [][ /\ \A item_id \in Items :
           (\E tresp \in TsmTokenAnswers(ApiTokenResponses), resp \in StatsResponses :
              get_tsm_region_stats(item_id, tresp, resp)) =>
             /\ last'.status = "not_found" =>
                  /\ ~last'.raised /\ last'.stats = NoStats
                  /\ last'.gets = 1
                  /\ str(item_id) \notin DOMAIN tsm_db
                  /\ Holds(tsm_db', str(item_id), NoStats)
             /\ Holds(tsm_db, str(item_id), NoStats) =>
                  /\ ~last'.raised /\ last'.stats = NoStats
                  /\ last'.gets = 0 /\ last'.tsm_posts = 0
      /\ \A key \in DOMAIN tsm_db : key \in DOMAIN tsm_db' /\ tsm_db'[key] = tsm_db[key]
    ]_vars

\* C5 witness: a second call for an item whose 404 was stored, answered from
\* the cache with no request
C5_Witness ==
  /\ last.op = "get_tsm_region_stats"
  /\ last.gets = 0 /\ last.tsm_posts = 0
  /\ last.stats = NoStats
  /\ Holds(tsm_db, str(last.arg), NoStats)

Snapshot(db, m) == ShelfGet(db, str(m))
\* The worker of realm m got its token and its listing
RemoteOk(m) == loc[m].remote_ok

\* C7 (as claimed): the workers of one refresh make at most one successful
\* credential exchange in total, and all of them obtain the same token.
C7_SingleExchange ==
  phase = "returned" =>
    /\ exchanges <= 1
    /\ \A r, q \in selected : (RemoteOk(r) /\ RemoteOk(q)) => loc[r].token = loc[q].token

\* C8 (as claimed): when the remote call of some selected realm fails, every
\* realm whose remote call succeeded has its snapshot in the result map and in
\* the price cache, and the cache entry of a failed realm is what it was.
C8_PartialFailureIsolated ==
  (phase = "returned" /\ \E m2 \in selected : ~RemoteOk(m2)) =>
    \A m \in selected :
      IF RemoteOk(m)
      THEN m \in DOMAIN results /\ Holds(auction_db, str(m), results[m])
      ELSE /\ m \notin DOMAIN results
           /\ (str(m) \in DOMAIN auction_db) = (str(m) \in DOMAIN db0)
           /\ Snapshot(auction_db, m) = Snapshot(db0, m)

\* C9 (as claimed): every realm whose worker failed is in an error collection
\* returned with the result map.
C9_FailuresReported ==
  phase = "returned" => \A m \in selected : pc[m] = "failed" => m \in ReturnedErrors

\* C10 (as claimed): when all remote calls of a refresh succeed, the price
\* cache holds for every selected realm the snapshot placed in the result map.
C10_NoLostSnapshot ==
  (phase = "returned" /\ \A m \in selected : RemoteOk(m)) =>
    \A m \in selected : m \in DOMAIN results /\ Holds(auction_db, str(m), results[m])

\* C11 (as claimed): at no time do two workers of a refresh hold the auction
\* shelf open for writing together.
C11_StoreMutex == Cardinality(ShelfOpen) <= 1

(***************************************************************************)
(* Claims about a failed refresh (SpecMarket).                             *)
(***************************************************************************)
\* The credential exchange of a call answered by tresp was made and failed
BlizzExchangeFailed(tresp) ==
  BlizzTokenAsked /\ (tresp.status # "ok" \/ tresp.access_token = None)

\* C12: a call of cache_realm_auctions whose credential exchange or whose
\* listing request fails raises, and leaves the auction shelf (the snapshot of
\* the realm and of every other realm) as it was.
C12_FailedRefreshNotCached ==
  [][ \A realm_id \in Realms, tresp \in BlizzTokenAnswers(SeqTokenResponses),
         resp \in ApiListingResponses :
        ( /\ BlizzExchangeFailed(tresp) \/ resp.status # "ok"
          /\ cache_realm_auctions(realm_id, tresp, resp) )
          => /\ last'.raised
             /\ auction_db' = auction_db
             /\ last'.gets = (IF BlizzExchangeFailed(tresp) THEN 0 ELSE 1)
    ]_vars

\* C12 witness: a refresh of a realm that has a snapshot, refused by the
\* listing endpoint, with the snapshot still stored
C12_Witness ==
  /\ last.op = "cache_realm_auctions"
  /\ last.raised /\ last.gets = 1 /\ last.status = "http_error"
  /\ str(last.arg) \in DOMAIN auction_db
  /\ PriceKeys(auction_db[str(last.arg)]) # {}

(***************************************************************************)
(* Claims about the name lookup (SpecNames).                               *)
(***************************************************************************)
\* A step that is a call of get_blizzard_name(item_id)
NameCall(item_id) ==
  \E tresp \in BlizzTokenAnswers(SeqTokenResponses), resp \in NameResponses :
    get_blizzard_name(item_id, tresp, resp)

\* C13: a call of get_blizzard_name(i) that succeeds after its request leaves
\* the returned string stored for i; an entry of the name cache is never
\* changed or removed; and a call for an item that has an entry returns that
\* string with no credential exchange and no item request. So once a call for i
\* has succeeded, every later call returns the same string and no further
\* item request is made for i.
C13_NameCached ==
  [][ /\ \A item_id \in Items :
           NameCall(item_id) =>
             /\ last'.gets <= 1
             /\ (~last'.raised /\ last'.gets = 1) =>
                  /\ str(item_id) \notin DOMAIN name_db
                  /\ Holds(name_db', str(item_id), last'.text)
             /\ str(item_id) \in DOMAIN name_db =>
                  /\ ~last'.raised /\ last'.text = name_db[str(item_id)]
                  /\ last'.gets = 0 /\ last'.blizz_posts = 0
      /\ \A key \in DOMAIN name_db : key \in DOMAIN name_db' /\ name_db'[key] = name_db[key]
    ]_vars

\* C13 witness: a call answered from the name cache, with no request, at a
\* time when the held token has expired
C13_Witness ==
  /\ last.op = "get_blizzard_name"
  /\ last.gets = 0 /\ last.blizz_posts = 0 /\ ~last.raised
  /\ Holds(name_db, str(last.arg), last.text)
  /\ Truthy(cached_blizz) /\ ~TokenValid(cached_blizz, blizz_expiry, clock)

(***************************************************************************)
(* Claims about the icon lookup (SpecPics).                                *)
(***************************************************************************)
\* A step that is a call of get_blizzard_pic(item_id)
PicCall(item_id) ==
  \E tresp \in BlizzTokenAnswers(SeqTokenResponses), resp \in MediaResponses :
    get_blizzard_pic(item_id, tresp, resp)
\* The last completed call was a successful get_blizzard_pic(item_id)
PicSucceeded(item_id) ==
  last.op = "get_blizzard_pic" /\ last.arg = item_id /\ ~last.raised

\* C14 (as claimed): after a call of get_blizzard_pic(i) that succeeded, the
\* next call for i returns the same value and makes no media request.
C14_IconCachedOnSuccess ==
  [][ \A item_id \in Items :
        (PicSucceeded(item_id) /\ PicCall(item_id)) =>
          ~last'.raised /\ last'.text = last.text /\ last'.gets = 0
    ]_vars

\* C14 (amended): a call of get_blizzard_pic(i) whose media answer carries an
\* icon stores the url it returns, and a call for an item that has an entry
\* returns it with no credential exchange and no media request, so the call
\* after a success that returned a url returns the same url with no request.
\* A call whose media answer carries no icon returns None and stores nothing,
\* and a call for an item without an entry asks the media endpoint (again).
\* An entry of the icon cache is never changed or removed.
C14_FoundIconCached ==
  [][ /\ \A item_id \in Items :
           PicCall(item_id) =>
             /\ last'.gets <= 1
             /\ (~last'.raised /\ last'.gets = 1 /\ last'.text # Missing) =>
                  /\ str(item_id) \notin DOMAIN pic_db
                  /\ Holds(pic_db', str(item_id), last'.text)
             /\ (~last'.raised /\ last'.gets = 1 /\ last'.text = Missing) =>
                  str(item_id) \notin DOMAIN pic_db'
             /\ str(item_id) \in DOMAIN pic_db =>
                  /\ ~last'.raised /\ last'.text = pic_db[str(item_id)]
                  /\ last'.gets = 0 /\ last'.blizz_posts = 0
             /\ (PicSucceeded(item_id) /\ last.text # Missing) =>
                  ~last'.raised /\ last'.text = last.text /\ last'.gets = 0
             /\ (str(item_id) \notin DOMAIN pic_db /\ ~last'.raised) => last'.gets = 1
      /\ \A key \in DOMAIN pic_db : key \in DOMAIN pic_db' /\ pic_db'[key] = pic_db[key]
    ]_vars

\* C14 witness: a call answered from the icon cache, with no request, at a
\* time when the held token has expired
C14_Witness ==
  /\ last.op = "get_blizzard_pic"
  /\ last.gets = 0 /\ last.blizz_posts = 0 /\ ~last.raised
  /\ Holds(pic_db, str(last.arg), last.text)
  /\ Truthy(cached_blizz) /\ ~TokenValid(cached_blizz, blizz_expiry, clock)

(***************************************************************************)
(* Claims about failed lookups (SpecItems).                                *)
(***************************************************************************)
\* A step that is a call of the lookup on item_id, with the answers of SpecItems
ItemNameCall(item_id) ==
  \E tresp \in BlizzTokenAnswers(SeqTokenResponses), resp \in ApiNameResponses :
    get_blizzard_name(item_id, tresp, resp)
ItemPicCall(item_id) ==
  \E tresp \in BlizzTokenAnswers(SeqTokenResponses), resp \in ApiMediaResponses :
    get_blizzard_pic(item_id, tresp, resp)
\* The call recorded in c sent its data request and the request failed
RequestFailed(c) == c.gets = 1 /\ c.status # "ok"
\* The call recorded in c was not answered from the cache: it sent its data
\* request, or it ended in the error of a failed credential exchange
AskedRemote(c) ==
  c.gets = 1 \/ (c.raised /\ c.blizz_posts = 1 /\ c.tok_status # "ok")

\* C15: a call of get_blizzard_name(i) or get_blizzard_pic(i) whose data
\* request fails raises and leaves its cache without an entry for i; a call for
\* an item without an entry is not answered from the cache (it sends the data
\* request, unless its credential exchange fails first), and so is the call
\* that follows a failed one for the same item.
C15_NoNegativeCaching ==
  [][ \A item_id \in Items :
        /\ ItemNameCall(item_id) =>
             /\ RequestFailed(last') => last'.raised /\ str(item_id) \notin DOMAIN name_db'
             /\ str(item_id) \notin DOMAIN name_db => AskedRemote(last')
             /\ ( /\ last.op = "get_blizzard_name" /\ last.arg = item_id
                  /\ RequestFailed(last) ) => AskedRemote(last')
        /\ ItemPicCall(item_id) =>
             /\ RequestFailed(last') => last'.raised /\ str(item_id) \notin DOMAIN pic_db'
             /\ str(item_id) \notin DOMAIN pic_db => AskedRemote(last')
             /\ ( /\ last.op = "get_blizzard_pic" /\ last.arg = item_id
                  /\ RequestFailed(last) ) => AskedRemote(last')
    ]_vars

\* C15 witness: a name lookup, made while a token is held, whose request
\* failed: it raised and the name cache has no entry for the item
C15_Witness ==
  /\ last.op = "get_blizzard_name"
  /\ RequestFailed(last) /\ last.raised
  /\ last.blizz_posts = 0
  /\ str(last.arg) \notin DOMAIN name_db

(***************************************************************************)
(* Claims about the cached read (SpecMarket).                              *)
(***************************************************************************)
\* The step completed a successful refresh of realm m
RefreshSucceeded(m) ==
  last'.op = "cache_realm_auctions" /\ last'.arg = m /\ ~last'.raised /\ last'.gets = 1

\* C16: get_cached_price(m, i) returns None when the auction shelf has no
\* snapshot of m, and when the snapshot of m has no entry for i; otherwise it
\* returns the price the snapshot holds for i. The snapshot of m is the dict the
\* most recent successful cache_realm_auctions(m) returned: a successful refresh
\* of m stores what it returns, and no other call touches the snapshot of m.
C16_CachedPriceResult ==
  [][ /\ \A m \in Realms, i \in Items :
           get_cached_price(m, i) =>
             last'.value =
               IF str(m) \notin DOMAIN auction_db THEN None
               ELSE IF str(i) \notin DOMAIN auction_db[str(m)] THEN None
               ELSE auction_db[str(m)][str(i)]
      /\ \A m \in Realms :
           IF RefreshSucceeded(m)
           THEN Holds(auction_db', str(m), last'.data)
           ELSE /\ (str(m) \in DOMAIN auction_db') = (str(m) \in DOMAIN auction_db)
                /\ Snapshot(auction_db', m) = Snapshot(auction_db, m)
    ]_vars

\* C16 witness: a read that returned the price of an item from the snapshot of
\* one realm while the other realm has no snapshot
C16_Witness ==
  /\ last.op = "get_cached_price"
  /\ last.value # None
  /\ Holds(Snapshot(auction_db, last.arg), str(last.item), last.value)
  /\ \E m \in Realms : str(m) \notin DOMAIN auction_db

(***************************************************************************)
(* Claims about the cached read among all operations (Spec).               *)
(***************************************************************************)
\* C17: a call of get_cached_price, in any state, makes no credential
\* exchange and no request, does not raise, and leaves the held tokens and the
\* contents of the four shelves as they were.
C17_CachedPriceIsPureRead ==
  [][ \A m \in Realms, i \in Items :
        get_cached_price(m, i) =>
          /\ last'.blizz_posts = 0 /\ last'.tsm_posts = 0 /\ last'.gets = 0
          /\ ~last'.raised
          /\ UNCHANGED <<tokvars, dbvars>>
    ]_vars

\* C17 witness: a read made when both held tokens have expired and every
\* shelf has an entry, answered with the stored price
C17_Witness ==
  /\ last.op = "get_cached_price"
  /\ last.value # None
  /\ Truthy(cached_blizz) /\ ~TokenValid(cached_blizz, blizz_expiry, clock)
  /\ Truthy(cached_tsm) /\ ~TokenValid(cached_tsm, tsm_expiry, clock)
  /\ DOMAIN tsm_db # {} /\ DOMAIN name_db # {} /\ DOMAIN pic_db # {}

(***************************************************************************)
(* Claims about the threads of a refresh (SpecRefresh).                    *)
(***************************************************************************)
\* The positions at which a worker has ended
Terminated == {"done", "failed"}
\* The steps of a worker that can end it in failure: the credential exchange,
\* the listing request, the opening of the shelf
FailingSteps == {"tok_post", "fetch", "open"}

\* C18: cache_selected_realms_auctions starts one worker for each selected
\* realm and none for any other; it returns only when every one of them has
\* ended, in success or in failure; and a worker ends in failure only by a step
\* of its own, which moves no other worker.
C18_ForkJoin ==
  [][ /\ (phase # "running" /\ phase' = "running") =>
           \A r \in ListedRealms :
             pc'[r] = (IF r \in selected' THEN "tok_check" ELSE "idle")
      /\ phase' = "returned" => \A r \in selected' : pc'[r] \in Terminated
      /\ \A r \in ListedRealms :
           (pc[r] # "failed" /\ pc'[r] = "failed") =>
             /\ pc[r] \in FailingSteps
             /\ \A q \in ListedRealms \ {r} : pc'[q] = pc[q]
      /\ \A r \in ListedRealms :
           (pc[r] \in Terminated /\ phase = "running") => pc'[r] = pc[r]
    ]_vars

\* C18 witness: a refresh of three realms has returned; one worker failed and
\* the two others ran to their end
C18_Witness ==
  /\ phase = "returned"
  /\ selected = ListedRealms
  /\ Cardinality({r \in selected : pc[r] = "failed"}) = 1
  /\ Cardinality({r \in selected : pc[r] = "done"}) = 2

(***************************************************************************)
(* Claims about a request that is never answered (SpecHang).               *)
(***************************************************************************)
\* C19 (as claimed): whenever the listing request of a worker gets no answer,
\* that worker ends in failure and the refresh returns.
C19_BoundedWaiting ==
  \A r \in Realms : (pc[r] = "waiting") ~> (pc[r] = "failed" /\ phase = "returned")

(***************************************************************************)
(* Claims about the durability of a write (SpecRefresh).                   *)
(***************************************************************************)
\* C20 (as claimed): when cache_realm_auctions(r) has returned to its worker
\* (the shelf is closed, the result not yet assigned), a get of the key of r
\* from the auction shelf returns the snapshot that the call wrote.
C20_DurableAtReturn ==
  \A r \in ListedRealms :
    pc[r] = "result" => Holds(auction_db, str(r), loc[r].realm_data)

(***************************************************************************)
(* Claims about concurrent lookups (SpecQueries).                          *)
(***************************************************************************)
\* C21 (as claimed): once the name cache holds a value for an item, no step of
\* any name lookup, of this thread or of another, changes or removes it.
C21_EntriesPermanent ==
  [][ \A key \in DOMAIN name_db :
        key \in DOMAIN name_db' /\ name_db'[key] = name_db[key]
    ]_vars

(***************************************************************************)
(* Claims about the token seen by concurrent workers (SpecTokens).         *)
(***************************************************************************)
\* C22 (as claimed): whenever a worker is about to test the held token
\* (auth.py:25), the held value and the held expiry come from one credential
\* exchange: the expiry is the real expiry of the held token minus the margin.
C22_TokenWholesale ==
  \A r \in Realms :
    (pc[r] = "tok_check" /\ Truthy(cached_blizz)) =>
      blizz_expiry = blizz_T - SafetyMargin

(***************************************************************************)
(* Claims about the fold of a listing (SpecListings).                      *)
(***************************************************************************)
\* C23: a listing answer is never an error, whatever its entries: the refresh
\* returns. The prices it adds are exactly those of the entries that carry both
\* an item id and a buyout: an entry lacking either adds no key and changes no
\* price, and a listing with no usable entry leaves every stored price as it
\* was and adds none.
C23_MalformedSkipped ==
  [][ /\ (last'.op = "cache_realm_auctions" /\ last'.status = "ok") => ~last'.raised
      /\ \A m \in Realms :
           RefreshSucceeded(m) =>
             LET before == Snapshot(auction_db, m)
                 after == Snapshot(auction_db', m)
                 usable == Usable(last'.listing)
             IN /\ PriceKeys(after) = PriceKeys(before) \cup {str(e.item) : e \in usable}
                /\ \A k \in PriceKeys(after) :
                     \/ k \in PriceKeys(before) /\ after[k] = before[k]
                     \/ \E e \in usable : str(e.item) = k /\ after[k] = e.buyout
                /\ usable = {} =>
                     \A k \in PriceKeys(after) : k \in PriceKeys(before) /\ after[k] = before[k]
    ]_vars

\* C23 witness: a refresh that returned on a listing of malformed entries only,
\* with the prices stored before still in the snapshot
C23_Witness ==
  /\ last.op = "cache_realm_auctions" /\ ~last.raised
  /\ last.listing # <<>>
  /\ Usable(last.listing) = {}
  /\ PriceKeys(last.data) # {}
  /\ Holds(auction_db, str(last.arg), last.data)

\* The rearrangements of a listing: the same entries in every order
Perms(s) == {p \in [DOMAIN s -> DOMAIN s] : \A i, j \in DOMAIN s : p[i] = p[j] => i = j}
Permuted(s, p) == [i \in DOMAIN s |-> s[p[i]]]

\* C24: the snapshot a successful refresh stores is the one the fold gives on
\* every rearrangement of the fetched listing, from the same stored snapshot.
C24_OrderIndependent ==
  [][ \A m \in Realms :
        RefreshSucceeded(m) =>
          \A p \in Perms(last'.listing) :
            RealmData(auction_db, m, Permuted(last'.listing, p), clock) = Snapshot(auction_db', m)
    ]_vars

\* C24 witness: a refresh that returned on a listing holding two usable entries
\* of one item with different buyouts, the dearer one first
C24_Witness ==
  /\ last.op = "cache_realm_auctions" /\ ~last.raised
  /\ Len(last.listing) >= 2
  /\ last.listing[1].item # None /\ last.listing[1].item = last.listing[2].item
  /\ last.listing[2].buyout # None /\ last.listing[1].buyout > last.listing[2].buyout
  /\ Holds(auction_db, str(last.arg), last.data)

\* The buyouts of item i among the usable entries of a listing
BuyoutsOf(auctions, i) == {e.buyout : e \in {u \in Usable(auctions) : u.item = i}}

C27_ItemToBuyout ==
  last.op = "get_cached_auctions" =>
    \A k \in DOMAIN last.data :
      /\ k \in {str(i) : i \in Items}
      /\ last.data[k] \in Buyouts

(***************************************************************************)
(* Claims about refreshes of different realms (SpecRefresh).               *)
(***************************************************************************)
\* C25 (as claimed): no step of the refresh of a realm, successful or failed,
\* changes the stored snapshot (prices and timestamp) of another realm, or
\* adds or removes it.
C25_MarketIndependence ==
  [][ \A r \in ListedRealms :
        (phase = "running" /\ pc'[r] # pc[r]) =>
          \A m \in ListedRealms \ {r} :
            /\ (str(m) \in DOMAIN auction_db') = (str(m) \in DOMAIN auction_db)
            /\ Snapshot(auction_db', m) = Snapshot(auction_db, m)
    ]_vars

(***************************************************************************)
(* Claims about the stat cache over time (SpecStatsTimed).                 *)
(***************************************************************************)
\* The step is a call of get_tsm_region_stats on item i (the passing of time
\* changes neither the record of the last call, nor the token, nor the cache)
StatsCall(i) ==
  /\ last'.op = "get_tsm_region_stats" /\ last'.arg = i
  /\ <<last, tsmvars, tsm_db>>' # <<last, tsmvars, tsm_db>>

\* C26: a call of get_tsm_region_stats on an item the stat cache holds returns
\* the held entry, asks neither the token endpoint nor the pricing endpoint,
\* whatever the state of the held token, and changes neither the token nor the
\* cache; and no step, at any time, changes or removes a held entry.
C26_StatHitShortCircuits ==
  [][ /\ \A i \in Items :
           (StatsCall(i) /\ str(i) \in DOMAIN tsm_db) =>
             /\ ~last'.raised
             /\ last'.stats = tsm_db[str(i)]
             /\ last'.tsm_posts = 0 /\ last'.gets = 0
             /\ UNCHANGED <<tsmvars, tsm_db>>
      /\ \A key \in DOMAIN tsm_db : Holds(tsm_db', key, tsm_db[key])
    ]_vars

\* C26 witness: a hit answered from the cache, with no request, at a time when
\* the held pricing token has expired
C26_Witness ==
  /\ last.op = "get_tsm_region_stats" /\ ~last.raised
  /\ Holds(tsm_db, str(last.arg), last.stats)
  /\ last.tsm_posts = 0 /\ last.gets = 0
  /\ Truthy(cached_tsm) /\ clock >= tsm_expiry

(***************************************************************************)
(* Claims about a refused credential exchange (SpecAuth).                  *)
(***************************************************************************)
\* C30: a call of get_blizzard_token or get_tsm_token whose exchange request
\* is answered by an HTTP error leaves the held token and the held expiry of
\* both providers as they were: get_blizzard_token raises, get_tsm_token
\* returns None.
C30_FailedExchangeChangesNothing ==
  [][ /\ (last'.op = "get_blizzard_token" /\ last'.blizz_posts = 1
                                           /\ last'.tok_status = "http_error") =>
           /\ last'.raised
           /\ UNCHANGED <<cached_blizz, blizz_expiry, cached_tsm, tsm_expiry>>
      /\ (last'.op = "get_tsm_token" /\ last'.tsm_posts = 1
                                      /\ last'.tok_status = "http_error") =>
           /\ ~last'.raised /\ last'.value = None
           /\ UNCHANGED <<cached_blizz, blizz_expiry, cached_tsm, tsm_expiry>>
    ]_vars

\* C30 witness: a refused exchange of get_tsm_token while an expired TSM token
\* and a Blizzard token are held
C30_Witness ==
  /\ last.op = "get_tsm_token" /\ last.tsm_posts = 1 /\ last.tok_status = "http_error"
  /\ Truthy(cached_tsm) /\ clock >= tsm_expiry
  /\ Truthy(cached_blizz)

(***************************************************************************)
(* Claims about the two implementations of the refresh (SpecImpls).        *)
(***************************************************************************)
\* C29: the refresh and the read of cache.py do what those of api.py do.
\* A refresh of one realm alone, by either module, returns the dict the fold of
\* api.py gives on the snapshot stored at its start and the fetched listing,
\* and leaves the store as it was at its start with that dict as the snapshot
\* of the realm. In a refresh of several realms, each step of a worker of
\* cache.py that touches the store has the effect of the step of api.py from
\* the same state: its write stores and keeps the dict the fold of api.py
\* gives, its close leaves the store as the close of api.py does, and the
\* mapping it hands to the coordinator is that dict. A read of a snapshot by
\* either module returns the stored snapshot, or the empty dict.
C29_ImplementationsEquivalent ==
  [][ /\ \A r \in Realms :
           (phase = "running" /\ phase' = "returned" /\ selected = {r} /\ pc[r] = "done") =>
             /\ Holds(results, r, RealmData(db0, r, loc[r].auctions, clock))
             /\ auction_db = DictPut(db0, str(r), results[r])
      /\ \A r \in Realms :
           (loc[r].writeback /\ pc[r] = "write" /\ pc'[r] = "close") =>
             LET realm_data ==
                   DictPut(FoldAuctions(loc[r].realm_data, loc[r].auctions), "_ts", clock)
             IN /\ loc'[r].realm_data = realm_data
                /\ auction_db' = DictPut(auction_db, str(r), realm_data)
      /\ \A r \in Realms :
           (loc[r].writeback /\ pc[r] = "close" /\ pc'[r] = "result") =>
             auction_db' = IF backend = "dumb" THEN loc[r].db ELSE auction_db
      /\ \A r \in Realms :
           (pc[r] = "result" /\ pc'[r] = "done") => Holds(results', r, loc[r].realm_data)
      /\ (last' # last /\ last'.op \in {"get_cached_auctions", "cache.get_cached_auctions"}) =>
           last'.data = Snapshot(auction_db, last'.arg)
    ]_vars

\* C29 witness: a refresh of one realm by cache.py has returned, on a listing
\* with a malformed entry before a usable one, over a snapshot stored before
\* at a lower price, and cache.py has read the snapshot back
C29_Witness ==
  /\ phase = "returned"
  /\ \E r \in Realms :
       /\ selected = {r} /\ pc[r] = "done" /\ loc[r].writeback
       /\ Len(loc[r].auctions) = 2
       /\ str(r) \in DOMAIN db0
       /\ Holds(db0[str(r)], "1", 1)
       /\ Holds(auction_db, str(r), results[r])
       /\ last.op = "cache.get_cached_auctions" /\ last.arg = r /\ last.data = results[r]

(***************************************************************************)
(* Claims about a stats lookup without a token (SpecStats).                *)
(***************************************************************************)
\* The step is a stats call that asked for a token and got none: the exchange
\* was refused, or its answer carried no access_token
NoTsmToken ==
  /\ last'.op = "get_tsm_region_stats" /\ last'.tsm_posts = 1 /\ ~last'.raised
  /\ \/ last'.tok_status = "http_error"
     \/ last'.tok_status = "ok" /\ cached_tsm' = None

\* C31: a stats call that gets no token returns (None, None), makes no pricing
\* request and leaves the stat cache as it was; and every call on an item the
\* cache does not hold, made with a token in hand, makes the pricing request.
C31_NoTokenNotCached ==
  [][ /\ NoTsmToken =>
           /\ last'.stats = NoStats
           /\ last'.gets = 0
           /\ tsm_db' = tsm_db
           /\ str(last'.arg) \notin DOMAIN tsm_db'
      /\ \A i \in Items :
           ( /\ last'.op = "get_tsm_region_stats" /\ last'.arg = i
             /\ str(i) \notin DOMAIN tsm_db
             /\ last'.tok_status \in {"none", "ok"} /\ cached_tsm' # None ) =>
             last'.gets = 1
    ]_vars

\* C31 witness: a call that got no token from a refused exchange returned
\* (None, None) with no pricing request, and the cache, which holds the other
\* item, has no entry for the item asked
C31_Witness ==
  /\ last.op = "get_tsm_region_stats" /\ last.tsm_posts = 1
  /\ last.tok_status = "http_error" /\ ~last.raised
  /\ last.stats = NoStats /\ last.gets = 0
  /\ str(last.arg) \notin DOMAIN tsm_db
  /\ tsm_db # EmptyDict

(***************************************************************************)
(* SpecFormat: format_price (utils.py:22-26) on every amount of copper up  *)
(* to MaxCopper, and on None. The rendered text "{g}g {s}s {k}c" is        *)
(* modelled by the three integers it prints.                               *)
(***************************************************************************)
\* The placeholder utils.py:24 returns for None (an em dash)
Dash == "--"

\* A rendering whose silver is the amount divided by 100, the gold not taken out
format_price_SilverOfAll(c) ==
  IF c = None
  THEN [text |-> Dash, parts |-> <<None, None, None>>]
  ELSE [text |-> "g s c", parts |-> <<c \div 10000, c \div 100, c % 100>>]

\* utils.py:22-26: the dash for None, else f"{c//10000}g {(c%10000)//100}s {c%100}c"
format_price(c) ==
  IF c = None
  THEN [text |-> Dash, parts |-> <<None, None, None>>]
  ELSE [text |-> "g s c", parts |-> <<c \div 10000, (c % 10000) \div 100, c % 100>>]

\* The amount to render: any amount up to MaxCopper, or None
InitFormat ==
  /\ InitState /\ backend = "dumb" /\ InitSettings
  /\ \E c \in (0..MaxCopper) \cup {None} : last = [NoCall EXCEPT !.op = "input", !.arg = c]

\* The call of format_price on the amount drawn
FormatPrice ==
  /\ last.op = "input"
  /\ last' = [NoCall EXCEPT !.op = "format_price", !.arg = last.arg,
                            !.text = format_price(last.arg).text,
                            !.parts = format_price(last.arg).parts]
  /\ UNCHANGED <<clock, tokvars, dbvars, refreshvars>>

SpecFormat == InitFormat /\ [][FormatPrice]_vars

(***************************************************************************)
(* Claims about format_price (SpecFormat).                                 *)
(***************************************************************************)
\* C38: for every non-negative amount of copper c the rendered gold, silver
\* and copper g, s, k satisfy 10000*g + 100*s + k = c with 0 <= s < 100 and
\* 0 <= k < 100 (and g >= 0), and None is rendered as the dash placeholder.
C38_PriceDecomposition ==
  last.op = "format_price" =>
    IF last.arg = None
    THEN last.text = Dash
    ELSE LET g == last.parts[1]
             s == last.parts[2]
             k == last.parts[3]
         IN /\ last.text # Dash
            /\ 10000 * g + 100 * s + k = last.arg
            /\ g >= 0
            /\ 0 <= s /\ s < 100
            /\ 0 <= k /\ k < 100

\* C38 witness: an amount with gold, silver and copper all present was rendered
C38_Witness ==
  /\ last.op = "format_price"
  /\ last.arg >= 10000
  /\ last.parts[1] >= 1 /\ last.parts[2] >= 1 /\ last.parts[3] >= 1
  /\ 10000 * last.parts[1] + 100 * last.parts[2] + last.parts[3] = last.arg

(***************************************************************************)
(* SpecRealms: the realm list, the settings shelf and the RealmManager     *)
(* windows of manage_realms_csv.py. A row of the realm list is one of      *)
(*   "empty"  : a row without fields (skipped, manage_realms_csv.py:22),   *)
(*   "colon"  : one field "id:name" (split at the first colon),            *)
(*   "fields" : two or more fields, the id and the name first,             *)
(*   "single" : one field without a colon;                                 *)
(* rid is the integer int() makes of the id text, None when int() raises   *)
(* ValueError. The realm list is a file the program reads and never        *)
(* writes.                                                                 *)
(***************************************************************************)
\* name.strip()
Strip(name) ==
  CASE name = " Stormrage " -> "Stormrage"
    [] OTHER -> name

\* The realm lists of the model
RealmFiles ==
  { <<>>,
    << [kind |-> "fields", rid |-> 1, name |-> "Area 52"],
       [kind |-> "colon", rid |-> 2, name |-> " Stormrage "] >>,
    << [kind |-> "empty", rid |-> None, name |-> Missing],
       [kind |-> "fields", rid |-> None, name |-> "realm_names"],
       [kind |-> "colon", rid |-> 1, name |-> "Area 52"] >>,
    << [kind |-> "fields", rid |-> 2, name |-> "Illidan"],
       [kind |-> "fields", rid |-> 1, name |-> "Area 52"],
       [kind |-> "colon", rid |-> 2, name |-> " Stormrage "] >>,
    << [kind |-> "fields", rid |-> 1, name |-> "Area 52"],
       [kind |-> "single", rid |-> 2, name |-> Missing] >> }

\* realms[rid] = name on a dict kept as the sequence of its items: a key
\* already there keeps its place
SetRealm(realms, rid, name) ==
  IF \E i \in 1..Len(realms) : realms[i].rid = rid
  THEN [i \in 1..Len(realms) |->
          IF realms[i].rid = rid THEN [rid |-> rid, name |-> name] ELSE realms[i]]
  ELSE Append(realms, [rid |-> rid, name |-> name])

\* manage_realms_csv.py:17-30 (and 47-61): the loop over the rows of the file.
\* `row[0], row[1]` raises IndexError on a row of one field without a colon;
\* the ValueError of int(rid) is caught and the row skipped.
RECURSIVE ReadRows(_, _)
ReadRows(realms, rows) ==
  IF rows = <<>> THEN [raised |-> FALSE, realms |-> realms]
  ELSE LET row == Head(rows) IN
       IF row.kind = "empty" THEN ReadRows(realms, Tail(rows))
       ELSE IF row.kind = "single" THEN [raised |-> TRUE, realms |-> <<>>]
       ELSE IF row.rid = None THEN ReadRows(realms, Tail(rows))
       ELSE ReadRows(SetRealm(realms, row.rid, Strip(row.name)), Tail(rows))

\* db.get(str(rid), True)
Flag(db, rid) == IF str(rid) \in DOMAIN db THEN db[str(rid)] ELSE TRUE

\* manage_realms_csv.py:12-37: the items of the dict returned, in order
load_selected_realms(rows, db) ==
  LET read == ReadRows(<<>>, rows)
      enabled(e) == Flag(db, e.rid)
  IN IF read.raised THEN read
     ELSE [raised |-> FALSE, realms |-> SelectSeq(read.realms, enabled)]

\* A call of load_selected_realms()
LoadSelectedRealms ==
  LET r == load_selected_realms(realms_csv, settings_db) IN
  /\ last' = [NoCall EXCEPT !.op = "load_selected_realms", !.raised = r.raised,
                            !.realms = r.realms]
  /\ UNCHANGED <<clock, tokvars, dbvars, backend, workervars, queryvars, appvars>>

\* manage_realms_csv.py:41-67: RealmManager(parent) reads the realm list and
\* the stored flags; flags0, toggles, count and stale keep, for the claims,
\* the flags read, the number of toggles of each realm and of all realms
\* since, and whether another window was saved since
RealmManager(w) ==
  LET read == ReadRows(<<>>, realms_csv)
      rids == {read.realms[i].rid : i \in 1..Len(read.realms)}
      flags == [rid \in rids |-> Flag(settings_db, rid)]
  IN
  /\ ~manager[w].open
  /\ manager' = [manager EXCEPT ![w] =
                   IF read.raised THEN NoManager
                   ELSE [open |-> TRUE, all_realms |-> read.realms, flags |-> flags,
                         flags0 |-> flags, toggles |-> [rid \in rids |-> 0],
                         count |-> 0, stale |-> FALSE]]
  /\ last' = [NoCall EXCEPT !.op = "RealmManager", !.arg = w, !.raised = read.raised,
                            !.realms = read.realms]
  /\ UNCHANGED <<clock, tokvars, dbvars, backend, workervars, queryvars,
                 realms_csv, settings_db, query, blizz_db, ah>>

\* A toggle that stores the flipped flag at once
on_toggle_Persisting(w, rid) ==
  /\ manager[w].open
  /\ rid \in DOMAIN manager[w].flags
  /\ manager[w].count < MaxToggles
  /\ manager' = [manager EXCEPT ![w].flags[rid] = ~manager[w].flags[rid],
                                ![w].toggles[rid] = manager[w].toggles[rid] + 1,
                                ![w].count = manager[w].count + 1]
  /\ settings_db' = DictPut(settings_db, str(rid), ~manager[w].flags[rid])
  /\ last' = [NoCall EXCEPT !.op = "_on_toggle", !.arg = w, !.item = rid]
  /\ UNCHANGED <<clock, tokvars, dbvars, backend, workervars, queryvars,
                 realms_csv, query, blizz_db, ah>>

\* manage_realms_csv.py:124-132: a double click on the row of realm rid
on_toggle(w, rid) ==
  /\ manager[w].open
  /\ rid \in DOMAIN manager[w].flags
  /\ manager[w].count < MaxToggles
  /\ manager' = [manager EXCEPT ![w].flags[rid] = ~manager[w].flags[rid],
                                ![w].toggles[rid] = manager[w].toggles[rid] + 1,
                                ![w].count = manager[w].count + 1]
  /\ last' = [NoCall EXCEPT !.op = "_on_toggle", !.arg = w, !.item = rid]
  /\ UNCHANGED <<clock, tokvars, dbvars, backend, workervars, queryvars,
                 realms_csv, settings_db, query, blizz_db, ah>>

\* manage_realms_csv.py:102: the Cancel button, command=self.destroy
destroy(w) ==
  /\ manager[w].open
  /\ manager' = [manager EXCEPT ![w] = NoManager]
  /\ last' = [NoCall EXCEPT !.op = "destroy", !.arg = w, !.value = manager[w].count]
  /\ UNCHANGED <<clock, tokvars, dbvars, backend, workervars, queryvars,
                 realms_csv, settings_db, query, blizz_db, ah>>

\* db[str(rid)] = val for every flag of the window
RECURSIVE StoreFlags(_, _, _)
StoreFlags(db, flags, rids) ==
  IF rids = {} THEN db
  ELSE LET rid == CHOOSE x \in rids : TRUE
       IN StoreFlags(DictPut(db, str(rid), flags[rid]), flags, rids \ {rid})

\* manage_realms_csv.py:134-140: the Save button: every flag is stored (the
\* writeback cache of the shelf holds the same booleans at close), then destroy()
save(w) ==
  /\ manager[w].open
  /\ settings_db' = StoreFlags(settings_db, manager[w].flags, DOMAIN manager[w].flags)
  /\ manager' = [v \in Windows |->
                   IF v = w THEN NoManager
                   ELSE IF manager[v].open THEN [manager[v] EXCEPT !.stale = TRUE]
                   ELSE manager[v]]
  /\ last' = [NoCall EXCEPT !.op = "_save", !.arg = w, !.value = manager[w].count]
  /\ UNCHANGED <<clock, tokvars, dbvars, backend, workervars, queryvars,
                 realms_csv, query, blizz_db, ah>>

\* Any realm list, and a flag stored for some of the realms
InitRealms ==
  /\ InitState /\ backend = "dumb" /\ last = NoCall
  /\ realms_csv \in RealmFiles
  /\ settings_db \in UNION {[K -> BOOLEAN] : K \in SUBSET {str(1), str(2)}}

NextRealms ==
  \/ LoadSelectedRealms
  \/ \E w \in Windows : RealmManager(w)
  \/ \E w \in Windows, rid \in Realms : on_toggle(w, rid)
  \/ \E w \in Windows : destroy(w)
  \/ \E w \in Windows : save(w)

SpecRealms == InitRealms /\ [][NextRealms]_vars

(***************************************************************************)
(* Claims about the realm settings (SpecRealms).                           *)
(***************************************************************************)
\* The realms the list names with an integer id, whatever the shape of the
\* other rows: the ids of the rows that carry an id and a name
Listed(rows) ==
  {rows[i].rid : i \in {j \in 1..Len(rows) : rows[j].rid # None}}

\* The settings shelf holds the flag True for the realm
StoredFlagOnly(db, rid) == str(rid) \in DOMAIN db /\ db[str(rid)]

\* C36 (as claimed): load_selected_realms returns the realms of the list whose
\* stored flag is True and no other: the call returns, and a realm is in the
\* result if and only if the list names it with an integer id and the
\* settings shelf holds the flag True for it.
C36_SelectedIffStoredTrue ==
  last.op = "load_selected_realms" =>
    /\ ~last.raised
    /\ \A rid \in Realms :
         (\E i \in 1..Len(last.realms) : last.realms[i].rid = rid)
           <=> (rid \in Listed(realms_csv) /\ StoredFlagOnly(settings_db, rid))

\* The flag of a realm after n toggles
Flipped(flag, n) == IF n % 2 = 0 THEN flag ELSE ~flag

\* What load_selected_realms() returned when the window m was opened: the
\* realms whose flag the window read as set
SelectedAtOpening(m) ==
  LET enabled(e) == m.flags0[e.rid] IN SelectSeq(m.all_realms, enabled)

\* C37: RealmManager persists only on Save. No step but a Save changes the
\* settings shelf: opening a window, toggling rows and Cancel leave it, and
\* what load_selected_realms() returns, as they were, so that after a Cancel
\* load_selected_realms() returns what it returned before the window was
\* opened (no other window having been saved meanwhile). A Save stores, for
\* every realm the list names with an integer id, the flag the window read
\* when it was opened, flipped once per toggle of that realm, and changes no
\* other key.
C37_PersistsOnlyOnSave ==
  [][ /\ settings_db' # settings_db => last'.op = "_save"
      /\ \A w \in Windows :
           (last'.op = "destroy" /\ last'.arg = w) =>
             /\ ~manager'[w].open
             /\ settings_db' = settings_db
             /\ load_selected_realms(realms_csv', settings_db')
                  = load_selected_realms(realms_csv, settings_db)
             /\ ~manager[w].stale =>
                  load_selected_realms(realms_csv', settings_db') =
                    [raised |-> FALSE, realms |-> SelectedAtOpening(manager[w])]
      /\ \A w \in Windows :
           (last'.op = "_save" /\ last'.arg = w) =>
             LET m == manager[w] IN
             /\ DOMAIN m.flags0 = Listed(realms_csv)
             /\ \A rid \in Listed(realms_csv) :
                  Holds(settings_db', str(rid), Flipped(m.flags0[rid], m.toggles[rid]))
             /\ \A k \in DOMAIN settings_db' \ {str(rid) : rid \in Listed(realms_csv)} :
                  k \in DOMAIN settings_db /\ settings_db'[k] = settings_db[k]
    ]_vars

\* C37 witness: a window in which rows were toggled was cancelled while the
\* other window, in which a flag is toggled away from the stored one, is
\* still open, and the shelf holds the flags stored at the start
C37_Witness ==
  /\ last.op = "destroy" /\ last.value >= 2
  /\ settings_db # EmptyDict
  /\ \E v \in Windows :
       /\ manager[v].open /\ ~manager[v].stale
       /\ \E rid \in DOMAIN manager[v].flags :
            /\ manager[v].flags[rid] # manager[v].flags0[rid]
            /\ Holds(settings_db, str(rid), manager[v].flags0[rid])

(***************************************************************************)
(* SpecRunQuery: the realm loop of ServanaApp._run_query (ui.py:252-276),  *)
(* run by one query at a time. RunQuery is the part of _run_query before   *)
(* the loop, with the name, icon and stat lookups completed and the stat   *)
(* lookup returning the market value mv; QueryRealm is one pass of the     *)
(* loop. A row of the tree is the realm, the rendered price and the ratio  *)
(* (price - mv) / mv behind the difference shown (not shown: the dash of   *)
(* ui.py:263 and ui.py:270).                                               *)
(***************************************************************************)
\* The listing and the token answers of the queries
QueryListingResponses ==
  {r \in ListingResponses({<<>>, << [item |-> 1, buyout |-> 1] >>,
                           << [item |-> 2, buyout |-> MaxBuyout] >>}) :
     r.status \in {"ok", "http_error"}}
QueryTokenResponses ==
  {r \in TokenResponses :
     /\ r.status = "ok" => r.access_token = 1 /\ r.expires_in = SafetyMargin + 1
     /\ r.status # "conn_error"}

\* A test of the cached price that takes every price as present
price_is_None_Never(price) == FALSE

\* ui.py:254 and ui.py:262: `if price is None`
price_is_None(price) == price = None

\* ui.py:222-252: the lookups, then load_selected_realms(); the tree is emptied
\* at ui.py:228. mv is data.get("marketValue") of the pricing answer (api.py:41)
\* or of the stat shelf: None, 0 or a price.
RunQuery(item_id, mv) ==
  LET sel == load_selected_realms(realms_csv, settings_db) IN
  /\ query.pc \in {"idle", "done", "failed"}
  /\ query' = [pc |-> IF sel.raised THEN "failed"
                      ELSE IF sel.realms = <<>> THEN "done" ELSE "realm",
               item |-> item_id, mv |-> mv, realms |-> sel.realms,
               todo |-> sel.realms, rows |-> <<>>]
  /\ last' = [NoCall EXCEPT !.op = "load_selected_realms", !.raised = sel.raised,
                            !.realms = sel.realms]
  /\ UNCHANGED <<clock, tokvars, dbvars, backend, workervars, queryvars,
                 realms_csv, settings_db, manager, blizz_db, ah>>

\* ui.py:253-276: one pass of the loop. The cached price is read
\* (cache.py:12-19); when it is None, cache_realm_auctions(rid) runs inside
\* the try block (api.py:116-133) and an exception of it leaves price None.
\* The row is computed outside the try block: (price - mv) / mv raises
\* ZeroDivisionError when mv is 0, which ends _run_query before the insert.
\* last is the record of the last call the pass made to cache.py or api.py.
QueryRealm(tresp, resp) ==
  LET rid == Head(query.todo).rid
      item_id == query.item
      cached == DictGet(ShelfGet(auction_db, str(rid)), str(item_id))
      tok == BlizzTokenResult(cached_blizz, blizz_expiry, blizz_T, clock, tresp)
      realm_data == RealmData(auction_db, rid, resp.auctions, clock)
      refresh == price_is_None(cached)
      refreshed == refresh /\ ~tok.raised /\ resp.status = "ok"
      price == IF ~refresh THEN cached
               ELSE IF refreshed THEN DictGet(realm_data, str(item_id))
               ELSE None
      divides == ~price_is_None(price) /\ query.mv # None
      failed == divides /\ query.mv = 0
      row == [rid |-> rid, realm |-> Head(query.todo).name,
              buy |-> format_price(price),
              diff |-> IF divides
                       THEN [shown |-> TRUE, num |-> price - query.mv, den |-> query.mv]
                       ELSE [shown |-> FALSE, num |-> 0, den |-> 1]]
      call == [NoCall EXCEPT !.arg = rid, !.item = item_id]
  IN
  /\ query.pc = "realm"
  /\ IF refresh THEN SetBlizz(tok) ELSE UNCHANGED blizzvars
  /\ auction_db' = IF refreshed THEN DictPut(auction_db, str(rid), realm_data)
                   ELSE auction_db
  /\ last' = IF ~refresh
             THEN [call EXCEPT !.op = "get_cached_price", !.value = cached]
             ELSE IF tok.raised
             THEN [call EXCEPT !.op = "cache_realm_auctions", !.raised = TRUE,
                               !.blizz_posts = tok.posts, !.tok_status = tresp.status]
             ELSE IF resp.status # "ok"
             THEN [call EXCEPT !.op = "cache_realm_auctions", !.raised = TRUE,
                               !.blizz_posts = tok.posts, !.tok_status = tresp.status,
                               !.gets = 1, !.status = resp.status]
             ELSE [call EXCEPT !.op = "cache_realm_auctions", !.data = realm_data,
                               !.blizz_posts = tok.posts, !.tok_status = tresp.status,
                               !.gets = 1, !.status = resp.status,
                               !.listing = resp.auctions]
  /\ query' = IF failed
              THEN [query EXCEPT !.pc = "failed"]
              ELSE [query EXCEPT !.pc = IF Tail(query.todo) = <<>> THEN "done" ELSE "realm",
                                 !.todo = Tail(query.todo),
                                 !.rows = Append(query.rows, row)]
  /\ UNCHANGED <<clock, tsmvars, tsm_db, name_db, pic_db, backend, workervars, queryvars,
                 realms_csv, settings_db, manager, blizz_db, ah>>

\* The realm list and the stored flags of the queries: two realms, both
\* selected, or the first one disabled
InitRunQuery ==
  /\ InitState /\ backend = "dumb" /\ last = NoCall
  /\ realms_csv = << [kind |-> "fields", rid |-> 1, name |-> "Area 52"],
                     [kind |-> "colon", rid |-> 2, name |-> " Stormrage "] >>
  /\ settings_db \in {EmptyDict, [k \in {str(1)} |-> FALSE]}

NextRunQuery ==
  \/ \E item_id \in Items, mv \in {None, 0} \cup Buyouts : RunQuery(item_id, mv)
  \/ \E tresp \in BlizzTokenAnswers(QueryTokenResponses), resp \in QueryListingResponses :
       QueryRealm(tresp, resp)

SpecRunQuery == InitRunQuery /\ [][NextRunQuery]_vars

(***************************************************************************)
(* Claims about the query (SpecRunQuery).                                  *)
(***************************************************************************)
\* A pass of the realm loop for the realm m
LoopPass(m) ==
  /\ query.pc = "realm" /\ query' # query
  /\ Head(query.todo).rid = m

\* C32: in the pass of the loop for a selected realm m, cache_realm_auctions(m)
\* is called exactly when get_cached_price(m, item) is None. A pass that finds
\* a price makes no request and writes nothing. A pass that finds none asks for
\* the whole listing of m whenever the token function returns a token, also
\* when the shelf already holds a snapshot of m: an item the listing of m does
\* not offer is never priced by the snapshot, so each query fetches the listing.
C32_RefreshIffAbsent ==
  [][ \A m \in Realms :
        LoopPass(m) =>
          LET cached == DictGet(ShelfGet(auction_db, str(m)), str(query.item)) IN
          /\ last'.arg = m /\ last'.item = query.item
          /\ last'.op = "cache_realm_auctions" <=> cached = None
          /\ last'.op = "get_cached_price" <=> cached # None
          /\ cached # None =>
               /\ last'.value = cached
               /\ last'.gets = 0 /\ last'.blizz_posts = 0
               /\ auction_db' = auction_db /\ blizzvars' = blizzvars
          /\ (cached = None /\ cached_blizz' # None /\ last'.tok_status # "http_error") =>
               last'.gets = 1
          /\ ( /\ cached = None /\ last'.gets = 1 /\ ~last'.raised
               /\ \A n \in DOMAIN last'.listing : last'.listing[n].item # query.item ) =>
               DictGet(ShelfGet(auction_db', str(m)), str(query.item)) = None
    ]_vars

\* C32 witness: a pass fetched the listing of a realm whose snapshot was
\* already on the shelf (it holds the price of the other item, which the
\* listing fetched now does not carry) and has no price for the item asked
C32_Witness ==
  /\ last.op = "cache_realm_auctions" /\ last.gets = 1 /\ ~last.raised
  /\ last.listing = <<>>
  /\ PriceKeys(ShelfGet(auction_db, str(last.arg))) # {}
  /\ DictGet(ShelfGet(auction_db, str(last.arg)), str(last.item)) = None
  /\ query.rows # <<>>
  /\ query.rows[Len(query.rows)].rid = last.arg
  /\ query.rows[Len(query.rows)].buy.text = Dash

\* C33 (as claimed): whenever the lookups complete, the query ends with exactly
\* one row per selected realm, in the order of the realms, whatever refreshes
\* succeeded or failed; the row of a realm without a price shows the dash.
C33_OneRowPerRealm ==
  query.pc \in {"done", "failed"} =>
    /\ Len(query.rows) = Len(query.realms)
    /\ \A n \in 1..Len(query.rows) : query.rows[n].rid = query.realms[n].rid

(***************************************************************************)
(* SpecServana: the price cache of servana.py. The program is single-      *)
(* threaded: cache_all_ah (the command of a button, servana.py:362) and    *)
(* get_blizzard_price (called by run_query, servana.py:275) run in the Tk  *)
(* main loop, one at a time. cache_all_ah makes one request per realm, and *)
(* time passes between its requests: it is a sequence of steps, the test   *)
(* of the stamp with the token first, then one step per realm. The         *)
(* variables of the Blizzard token stand for _cached_blizz_token and       *)
(* _blizz_expiry of servana.py (servana.py:81-94, the logic of auth.py).   *)
(* The clock counts steps of TimeStep seconds.                             *)
(***************************************************************************)
\* servana.py:53: CACHE_EXPIRY = 30 * 60
CACHE_EXPIRY == 30 * 60
\* servana.py:303: `if now-last<3600`
AhInterval == 3600
\* The seconds of one step of the clock
TimeStep == 1200
\* time.time(): the clock counts from a time of the year 2023
Now == 1700000000 + clock * TimeStep

\* servana.py:78: the realm ids of REALMS, in the order of the dict
REALMS == <<1, 2>>
\* The listings of the model: an item listed once, and listed twice with
\* different prices and quantities, the second entry with a buyout only
AhListingResponses ==
  {r \in ListingResponses(
       { << [item |-> 1, unit_price |-> MaxBuyout, buyout |-> None, quantity |-> 1] >>,
         << [item |-> 1, unit_price |-> 1, buyout |-> None, quantity |-> 1],
            [item |-> 1, unit_price |-> None, buyout |-> MaxBuyout, quantity |-> 2] >> }) :
     r.status \in {"ok", "http_error"}}
\* The token answers when get_blizzard_token asks (servana.py:83-84): a token
\* with the default lifetime, or a refusal
AhTokenAnswers ==
  IF TokenValid(cached_blizz, blizz_expiry, Now) THEN {NoResponse}
  ELSE {r \in TokenResponses :
          /\ r.status = "ok" => r.access_token = 1 /\ r.expires_in = None
          /\ r.status # "conn_error"}

\* f"{realm_id}:{item_id}": the key of a price entry
PriceKey(realm_id, item_id) == <<realm_id, item_id>>

\* a.get("unit_price") or a.get("buyout")
PriceOf(a) == IF a.unit_price # None /\ a.unit_price # 0 THEN a.unit_price ELSE a.buyout

\* The entries of a listing for an item
RECURSIVE AuctionsOf(_, _)
AuctionsOf(auctions, item_id) ==
  IF auctions = <<>> THEN <<>>
  ELSE IF Head(auctions).item = item_id
       THEN <<Head(auctions)>> \o AuctionsOf(Tail(auctions), item_id)
       ELSE AuctionsOf(Tail(auctions), item_id)

\* servana.py:178-180: min(prices) if prices else None, and the sum of the quantities
RECURSIVE MinPrice(_)
MinPrice(auctions) ==
  IF auctions = <<>> THEN None
  ELSE IF Tail(auctions) = <<>> THEN PriceOf(Head(auctions))
  ELSE Min(PriceOf(Head(auctions)), MinPrice(Tail(auctions)))
RECURSIVE SumQuantity(_)
SumQuantity(auctions) ==
  IF auctions = <<>> THEN 0
  ELSE Head(auctions).quantity + SumQuantity(Tail(auctions))

\* The (price, quantity) get_blizzard_price computes from a listing
PriceAndQuantity(auctions, item_id) ==
  <<MinPrice(AuctionsOf(auctions, item_id)), SumQuantity(AuctionsOf(auctions, item_id))>>

\* servana.py:315-320: db[key] = {"price", "quantity", "timestamp": now} for
\* each entry of the listing in turn; by and listing keep, for the claims,
\* the function that wrote the entry and the listing it was taken from
RECURSIVE StoreAuctions(_, _, _, _, _)
StoreAuctions(prices, realm, auctions, now, listing) ==
  IF auctions = <<>> THEN prices
  ELSE LET a == Head(auctions)
       IN StoreAuctions(
            DictPut(prices, PriceKey(realm, a.item),
                    [price |-> PriceOf(a), quantity |-> a.quantity, timestamp |-> now,
                     by |-> "cache_all_ah", listing |-> listing]),
            realm, Tail(auctions), now, listing)

\* A test of the stamp that never refuses a run
ThrottledNever(now, db) == FALSE

\* servana.py:302-303: last = db.get("_last_ah_cache_time", 0), `if now-last<3600`
Throttled(now, db) ==
  now - (IF db.last_ah_cache_time = None THEN 0 ELSE db.last_ah_cache_time) < AhInterval

\* servana.py:299-305: now = time.time(), the test of the stamp, the token.
\* A refused call and a call whose token exchange fails return at once.
cache_all_ah(tresp) ==
  LET now == Now
      tok == BlizzTokenResult(cached_blizz, blizz_expiry, blizz_T, now, tresp)
      call == [NoCall EXCEPT !.op = "cache_all_ah", !.value = now]
  IN
  /\ ah.pc = "idle"
  /\ IF Throttled(now, blizz_db)
     THEN /\ last' = [call EXCEPT !.status = "throttled"]
          /\ UNCHANGED <<blizzvars, ah>>
     ELSE /\ SetBlizz(tok)
          /\ last' = [call EXCEPT !.raised = tok.raised, !.blizz_posts = tok.posts,
                                  !.tok_status = tresp.status,
                                  !.status = IF tok.raised THEN "failed" ELSE "started"]
          /\ ah' = IF tok.raised THEN ah
                   ELSE [ah EXCEPT !.pc = "fetch", !.now = now, !.todo = REALMS]
  /\ UNCHANGED <<clock, tsmvars, dbvars, backend, workervars, queryvars,
                 realms_csv, settings_db, manager, query, blizz_db>>

\* servana.py:307-321: the request of the next realm, raise_for_status(), the
\* entries of its listing; after the last realm the stamp is set to the `now`
\* of the start. completed keeps, for the claims, the time the last completed
\* run ended.
AhFetch(resp) ==
  LET realm == Head(ah.todo)
      call == [NoCall EXCEPT !.op = "cache_all_ah", !.arg = realm, !.value = ah.now,
                             !.gets = 1]
      prices == StoreAuctions(blizz_db.prices, realm, resp.auctions, ah.now, resp.auctions)
  IN
  /\ ah.pc = "fetch"
  /\ IF resp.status # "ok"
     THEN /\ last' = [call EXCEPT !.raised = TRUE, !.status = "failed"]
          /\ ah' = [ah EXCEPT !.pc = "idle", !.todo = <<>>]
          /\ UNCHANGED blizz_db
     ELSE IF Tail(ah.todo) # <<>>
     THEN /\ last' = [call EXCEPT !.status = "fetched", !.listing = resp.auctions]
          /\ ah' = [ah EXCEPT !.todo = Tail(ah.todo)]
          /\ blizz_db' = [blizz_db EXCEPT !.prices = prices]
     ELSE /\ last' = [call EXCEPT !.status = "completed", !.listing = resp.auctions]
          /\ ah' = [ah EXCEPT !.pc = "idle", !.todo = <<>>, !.completed = Now]
          /\ blizz_db' = [prices |-> prices, last_ah_cache_time |-> ah.now]
  /\ UNCHANGED <<clock, tokvars, dbvars, backend, workervars, queryvars,
                 realms_csv, settings_db, manager, query>>

\* servana.py:164-183
get_blizzard_price(realm_id, item_id, tresp, resp) ==
  LET key == PriceKey(realm_id, item_id)
      tok == BlizzTokenResult(cached_blizz, blizz_expiry, blizz_T, Now, tresp)
      pq == PriceAndQuantity(resp.auctions, item_id)
      call == [NoCall EXCEPT !.op = "get_blizzard_price", !.arg = realm_id, !.item = item_id]
  IN
  /\ ah.pc = "idle"
  /\ IF \* `entry and time.time()-entry.get("timestamp",0)<CACHE_EXPIRY`
        key \in DOMAIN blizz_db.prices /\ Now - blizz_db.prices[key].timestamp < CACHE_EXPIRY
     THEN /\ last' = [call EXCEPT !.stats = <<blizz_db.prices[key].price,
                                              blizz_db.prices[key].quantity>>]
          /\ UNCHANGED <<blizzvars, blizz_db>>
     ELSE /\ SetBlizz(tok)
          /\ IF tok.raised
             THEN /\ last' = [call EXCEPT !.raised = TRUE, !.blizz_posts = tok.posts,
                                          !.tok_status = tresp.status]
                  /\ UNCHANGED blizz_db
             ELSE IF resp.status # "ok"
             THEN /\ last' = [call EXCEPT !.raised = TRUE, !.blizz_posts = tok.posts,
                                          !.tok_status = tresp.status,
                                          !.gets = 1, !.status = resp.status]
                  /\ UNCHANGED blizz_db
             ELSE /\ last' = [call EXCEPT !.stats = pq, !.blizz_posts = tok.posts,
                                          !.tok_status = tresp.status,
                                          !.gets = 1, !.status = resp.status,
                                          !.listing = resp.auctions]
                  /\ blizz_db' = [blizz_db EXCEPT !.prices =
                                    DictPut(blizz_db.prices, key,
                                            [price |-> pq[1], quantity |-> pq[2],
                                             timestamp |-> Now,
                                             by |-> "get_blizzard_price",
                                             listing |-> resp.auctions])]
  /\ UNCHANGED <<clock, tsmvars, dbvars, backend, workervars, queryvars,
                 realms_csv, settings_db, manager, query, ah>>

NextServana ==
  \/ Tick
  \/ \E tresp \in AhTokenAnswers : cache_all_ah(tresp)
  \/ \E resp \in AhListingResponses : AhFetch(resp)
  \/ \E realm_id \in Realms, item_id \in {1}, tresp \in AhTokenAnswers,
        resp \in AhListingResponses :
       get_blizzard_price(realm_id, item_id, tresp, resp)

SpecServana == Init /\ [][NextServana]_vars

(***************************************************************************)
(* Claims about the price cache of servana.py (SpecServana).               *)
(***************************************************************************)
\* A call of cache_all_ah: its first step
AhCall ==
  /\ ah.pc = "idle" /\ clock' = clock
  /\ last'.op = "cache_all_ah" /\ last' # last

\* The call made nothing but the test of the stamp
AhRefused ==
  /\ last'.status = "throttled"
  /\ last'.blizz_posts = 0 /\ last'.gets = 0 /\ ~last'.raised
  /\ blizz_db' = blizz_db /\ blizzvars' = blizzvars /\ ah' = ah

\* C34 (as claimed): after a run of cache_all_ah that completed at time t,
\* every call made before t + 3600 s makes no request and writes nothing to
\* the price store.
C34_ThrottledAfterCompletion ==
  [][ ( /\ AhCall
        /\ ah.completed # None
        /\ Now < ah.completed + AhInterval ) => AhRefused ]_vars

\* C34 (amended): the hour is counted from the start of the last completed
\* run. A call is refused, with no request and no write, exactly when it is
\* made less than 3600 s after the time `now` at which the last completed run
\* started; a call that is not refused and gets its token starts a run with
\* that time as `now`. The stamp is written by the step that completes a run
\* and by no other, with the `now` of the start of the run; a run that fails
\* on a realm leaves the stamp as it was, so the calls after it are refused
\* or not as they were before it.
C34_ThrottledAfterStart ==
  [][ /\ AhCall =>
           /\ last'.status = "throttled" <=>
                ( /\ blizz_db.last_ah_cache_time # None
                  /\ Now < blizz_db.last_ah_cache_time + AhInterval )
           /\ last'.status = "throttled" => AhRefused
           /\ last'.status = "started" => ah'.pc = "fetch" /\ ah'.now = Now
      /\ blizz_db'.last_ah_cache_time # blizz_db.last_ah_cache_time =>
           /\ last'.op = "cache_all_ah" /\ last'.status = "completed"
           /\ blizz_db'.last_ah_cache_time = ah.now
           /\ ah.now <= Now
           /\ ah'.completed = Now
      /\ (last'.op = "cache_all_ah" /\ last'.status = "failed" /\ clock' = clock) =>
           /\ blizz_db'.last_ah_cache_time = blizz_db.last_ah_cache_time
           /\ ah'.pc = "idle"
    ]_vars

\* C34 witness: a call was refused after a completed run that took time:
\* the stamp is the start of the run, earlier than its end
C34_Witness ==
  /\ last.op = "cache_all_ah" /\ last.status = "throttled"
  /\ ah.completed # None
  /\ blizz_db.last_ah_cache_time < ah.completed
  /\ last.value > ah.completed
  /\ blizz_db.prices # EmptyDict

\* C35 (as claimed): the (price, quantity) get_blizzard_price returns from a
\* fresh entry that cache_all_ah wrote equals the (price, quantity)
\* get_blizzard_price computes from the listing the entry was taken from: the
\* lowest price and the sum of the quantities of the item's auctions.
C35_PrecacheAgrees ==
  \A realm_id \in Realms, item_id \in Items :
    LET key == PriceKey(realm_id, item_id) IN
    ( /\ last.op = "get_blizzard_price" /\ last.arg = realm_id /\ last.item = item_id
      /\ ~last.raised /\ last.gets = 0
      /\ key \in DOMAIN blizz_db.prices
      /\ blizz_db.prices[key].by = "cache_all_ah" ) =>
      last.stats = PriceAndQuantity(blizz_db.prices[key].listing, item_id)

====
